---- MODULE Spec2Model ----
(***************************************************************************)
(* A model of the resilient asynchronous HTTP client core of               *)
(* src/src/network_test/network.py: RateLimiter, CircuitBreaker and the    *)
(* retry executor / request pipeline of AsyncNetworkClient.                *)
(*                                                                         *)
(* The program runs on one asyncio event loop: a coroutine runs without    *)
(* interruption from one suspension point (an await that really suspends:  *)
(* a contended lock, asyncio.sleep, network I/O) to the next.  Each action *)
(* below is one such uninterrupted segment of one task.                    *)
(*                                                                         *)
(* Time is the wall clock time.time() in whole ticks.  Tick lets it pass;  *)
(* a sleeping task may resume at any time not before its deadline.         *)
(*                                                                         *)
(* Specifications:                                                         *)
(*   SpecRL     concurrent callers of RateLimiter.acquire                  *)
(*   SpecCache  any sequence of AsyncCache operations over time            *)
(*   SpecKey    _generate_cache_key on two calls' arguments                *)
(*   SpecGet    one caller's request() calls, cached and uncached          *)
(*   SpecCB     concurrent callers of CircuitBreaker.call(func), any func  *)
(*   SpecRetry  one caller's requests through the retry executor           *)
(*   Spec       concurrent request() calls on one AsyncNetworkClient       *)
(*   SpecOpen     one caller's requests through a breaker that opens       *)
(*   SpecSession  one caller's request() and close() calls                 *)
(*   SpecUrl      _build_url on a base URL and an endpoint                 *)
(*   SpecHeaders  the header merge of request()                            *)
(*   SpecBody     one caller's requests answered with every kind of body   *)
(*   SpecDeadline concurrent request() calls of callers with deadlines     *)
(*   SpecTelemetry _log_request called until the history is full           *)
(*   SpecMulti    get_multiple over a list of endpoints                    *)
(*   SpecLive     concurrent request() calls under fair scheduling         *)
(*   SpecShared   two callers' cached GETs with their own headers          *)
(*   SpecClosing  one caller's requests while another task calls close()   *)
(***************************************************************************)
EXTENDS Integers, Sequences, FiniteSets, TLC

\* ------------------------------------------------------------------ bounds
NumTasks == 2        \* concurrent coroutines using one object
MaxTicks == 4        \* ticks the clock may advance by Tick
MaxInterval == 2     \* largest RateLimiter.min_interval explored (ticks)
MaxAcquires == 4     \* acquire() calls explored under SpecRL
MaxThreshold == 2    \* largest failure_threshold explored under SpecCB
MaxRecovery == 2     \* largest recovery_timeout explored under SpecCB
MaxCalls == 5        \* CircuitBreaker.call() invocations explored under SpecCB
MaxRetries == 6      \* largest max_retries explored under SpecRetry
MaxRetryRequests == 2 \* request() calls explored under SpecRetry
MaxClientRetries == 1 \* largest max_retries explored under Spec
MaxRequests == 3     \* request() calls explored under Spec
MaxTTL == 2          \* largest ttl and default_ttl explored (ticks)
MaxCacheOps == 4     \* AsyncCache operations explored under SpecCache
MaxParams == 3       \* most query parameters of one call under SpecKey
MaxGetRequests == 2  \* request() calls explored under SpecGet
MaxOpenRequests == 7  \* request() calls explored under SpecOpen
MaxSessionCalls == 4  \* request() and close() calls explored under SpecSession
MaxDeadline == 3     \* latest deadline explored under SpecDeadline (ticks)
MaxDeadlineRequests == 2 \* request() calls explored under SpecDeadline
MaxLogCalls == 103   \* _log_request calls explored under SpecTelemetry
MaxLoggedErrors == 2 \* failed attempts among them
MaxMultiRequests == 5 \* request() calls before get_multiple under SpecMulti
MaxSharedRequests == 3 \* request() calls explored under SpecShared
MaxClosingCalls == 3 \* request() and close() calls explored under SpecClosing
MaxLiveRequests == 3 \* request() calls explored under SpecLive
MaxBodyRequests == 2 \* request() calls explored under SpecBody
MaxBaseUrlLen == 5   \* longest base_url explored under SpecUrl (characters)
MaxEndpointLen == 4  \* longest endpoint explored under SpecUrl (characters)

\* time.time() when the objects are constructed: a Unix timestamp, far above
\* every interval of the program (last_request_time and last_failure_time
\* start at 0, so the first comparison against them always finds "long ago").
Epoch == 100

Tasks == 1..NumTasks
NoTask == 0
\* The task that makes the calls of the single-caller specifications.
Caller == CHOOSE t \in Tasks : \A u \in Tasks : t <= u

Min(a, b) == IF a < b THEN a ELSE b

VARIABLES
    now,                \* time.time()
    pc,                 \* pc[t]: where task t is suspended
    wake,               \* wake[t]: deadline of the asyncio.sleep task t is in
    \* RateLimiter
    requests_per_second,
    min_interval,
    last_request_time,
    rl_lock,            \* holder of RateLimiter._lock, NoTask when free
    \* CircuitBreaker
    failure_threshold,
    recovery_timeout,
    failure_count,
    last_failure_time,
    state,
    cb_lock,            \* holder of CircuitBreaker._lock, NoTask when free
    \* AsyncCache
    default_ttl,
    cache,              \* _cache: key -> [value, expiry], for the keys present
    \* AsyncNetworkClient
    max_retries,
    circuit_breaker,    \* TRUE when the client has a CircuitBreaker
    session,            \* "none", "open" or "closed"
    session_id,         \* ClientSession objects created so far: the identity
                        \* of the current one
    connector,          \* "open" or "closed": the TCPConnector of __init__,
                        \* which every session is created on
    request_count,
    error_count,
    last_requests,      \* the deque of request records, oldest first
    \* request(): the arguments and locals of task t's call
    args,
    req_headers,        \* req_headers[t]: the headers argument of t's call
    cache_key,
    \* _make_request_with_retry: the locals of task t's execution
    attempt,
    last_exception,
    \* what each call gave its caller
    result,
    response,           \* response[t]: the value request() returned to task t
    simple_response,    \* simple_response[t]: the body of the SimpleResponse
                        \* the retry executor returned to t's request()
    \* history (observations only; no action reads them)
    grants,             \* times at which acquire() calls returned (SpecRL)
    successes,          \* wrapped calls that returned, since construction
    failures,           \* wrapped calls that raised, since construction
    func_exc,           \* func_exc[t]: what the function wrapped by t's
                        \* breaker call raised last
    retry_in,           \* retry_in[t]: the wait the CircuitBreakerOpenError
                        \* raised to t's call announces ("Will retry in")
    sleeps,             \* sleeps[t]: backoff sleeps of task t's request, in order
    outcome,            \* outcome[t]: how the latest attempt of t's request ended
    cache_op,           \* the latest AsyncCache operation and what it returned
    last_set,           \* last_set[k]: the latest set of k since the last clear
    closes,             \* close() calls that returned, since construction
    issued_on,          \* issued_on[t]: the state of the session at the moment
                        \* t's latest transport attempt was issued on it
    \* _build_url and the header merge of request(): arguments and results
    base_url_arg,       \* the base_url given to __init__
    base_url,           \* self.base_url
    endpoint,           \* the endpoint given to _build_url
    full_url,           \* what _build_url returned
    default_headers,    \* self.default_headers
    headers,            \* the headers given to request()
    merged_headers,     \* the headers request() passes to the transport
    \* the caller's deadline: asyncio.wait_for or asyncio.timeout around the call
    deadline,           \* deadline[t]: when task t's caller gives up
    cancelled,          \* cancelled[t]: the cancellation was delivered to t
    \* get_multiple(endpoints): its fetch_one coroutines are the tasks
    gm_pc,              \* "idle", "gather" (awaiting asyncio.gather) or "done"
    gm_endpoints,       \* the endpoints argument, a list
    gm_results,         \* what get_multiple returned or raised
    started             \* calls started so far (exploration budget)

rlVars == <<requests_per_second, min_interval, last_request_time, rl_lock>>
cbVars == <<failure_threshold, recovery_timeout, failure_count,
            last_failure_time, state, cb_lock>>
cbHist == <<successes, failures, func_exc, retry_in>>
caVars == <<default_ttl, cache, cache_op, last_set>>
rqVars == <<args, req_headers, cache_key, response, simple_response>>
fnVars == <<base_url_arg, base_url, endpoint, full_url, default_headers,
            headers, merged_headers>>
dlVars == <<deadline, cancelled>>
gmVars == <<gm_pc, gm_endpoints, gm_results>>
clVars == <<max_retries, circuit_breaker, session, session_id, connector,
            request_count, error_count, last_requests, attempt,
            last_exception, sleeps, outcome, closes, issued_on>>
vars == <<now, pc, wake, min_interval, last_request_time, rl_lock,
          failure_threshold, recovery_timeout, failure_count,
          last_failure_time, state, cb_lock, max_retries, circuit_breaker,
          session, request_count, error_count, last_requests, attempt,
          last_exception, result, grants, successes, failures, sleeps,
          outcome, started, default_ttl, cache, cache_op, last_set, args,
          cache_key, response, func_exc, retry_in, session_id, closes,
          connector, simple_response, base_url_arg, base_url, endpoint, full_url,
          default_headers,
          headers, merged_headers, deadline, cancelled, requests_per_second,
          req_headers, issued_on, gm_pc, gm_endpoints, gm_results>>

\* ------------------------------------------------------- values and results
NoException == [type |-> "None", status |-> 0]
CircuitBreakerOpenError == [type |-> "CircuitBreakerOpenError", status |-> 0]
FuncError == [type |-> "Exception", status |-> 0]
OtherFuncError == [type |-> "ValueError", status |-> 0]
\* The exceptions the function given to CircuitBreaker.call raises (SpecCB).
FuncErrors == {FuncError, OtherFuncError}

\* An attempt that ends with no response at all: a connection error or a
\* timeout (_log_request records it with status 0).
NoResponse == 0
\* No attempt of the request has ended yet.
NoOutcome == NoResponse - 1
\* An attempt on a closed session: session.request raises
\* RuntimeError("Session is closed") at once.
SessionIsClosed == NoOutcome - 1

\* Python's None as a value a call returns or the cache stores.
None == [kind |-> "None", body |-> ""]
\* The body of a response, before any response: no content type, no text.
NoSimpleResponse == [content_type |-> "", text |-> ""]
\* cache_ttl = None / ttl = None: no time-to-live given.
NoTTL == 0 - 1

NoResult == [kind |-> "none", exc |-> NoException, attempt |-> 0]
Returned(k) == [kind |-> "returned", exc |-> NoException, attempt |-> k]
Raised(e, k) == [kind |-> "raised", exc |-> e, attempt |-> k]

\* ------------------------------------------------------------------- clock
\* No deadline.
NoDeadline == 0
NoDeadlines ==
    /\ deadline = [t \in Tasks |-> NoDeadline]
    /\ cancelled = [t \in Tasks |-> FALSE]

\* Task t is suspended: in a sleep, in the transport call, or waiting for a
\* lock another task holds.
Suspended(t) ==
    \/ pc[t] \in {"rl_sleep", "transport", "backoff"}
    \/ pc[t] = "acquire" /\ min_interval # 0 /\ rl_lock # NoTask
    \/ pc[t] = "cb_call" /\ cb_lock # NoTask

\* The tasks whose deadline is a pending timer of the event loop: they are
\* suspended and their cancellation has not been delivered.
Awaited ==
    {t \in Tasks : Suspended(t) /\ deadline[t] # NoDeadline /\ ~cancelled[t]}

\* The event loop runs a task with a deadline up to its next suspension
\* before any time passes for it.
Settled ==
    \A t \in Tasks :
        deadline[t] # NoDeadline => (pc[t] = "idle" \/ Suspended(t))

\* Time passes, but not beyond a pending deadline.
Tick ==
    /\ now < Epoch + MaxTicks
    /\ Settled
    /\ \A t \in Awaited : deadline[t] > now
    /\ now' = now + 1
    /\ UNCHANGED <<pc, wake, rlVars, cbVars, clVars, caVars, rqVars, result,
                   grants, cbHist, started, fnVars, dlVars, gmVars>>

\* ------------------------------------------------------------- RateLimiter
\* A rate, in requests per tick: the fraction num / den.
Rps(num, den) == [num |-> num, den |-> den]
\* The rates explored: a negative one, zero, and one request per i ticks.
Rates ==
    {Rps(0 - 1, 1), Rps(0, 1)} \cup {Rps(1, i) : i \in 1..MaxInterval}
\* The rates explored for the limiter of a client.
ClientRates == {r \in Rates : r.num >= 0}
\* The limiter of the specifications that never call it.
Unlimited == Rps(0, 1)

\* 1.0 / requests_per_second if requests_per_second > 0 else 0
MinIntervalOfMagnitude(rate) ==
    IF rate.num # 0
    THEN rate.den \div (IF rate.num < 0 THEN 0 - rate.num ELSE rate.num)
    ELSE 0
MinInterval(rate) == IF rate.num > 0 THEN rate.den \div rate.num ELSE 0

\* RateLimiter.__init__(requests_per_second)
RateLimiterInit(rate) ==
    /\ requests_per_second = rate
    /\ min_interval = MinInterval(rate)
    /\ last_request_time = 0
    /\ rl_lock = NoTask

\* sleep_time = self.min_interval - time_since_last
SleepTime(current_time) == min_interval - (current_time - last_request_time)

\* The lock is held across the sleep: asyncio.sleep is awaited inside
\* "async with self._lock".
LockWhileSleepingReleased(t) == NoTask
LockWhileSleeping(t) == t

\* acquire(), from the call to its first suspension or its return to pc ret.
\* A task at "acquire" with the lock taken is waiting for the lock.
AcquireEnter(t, ret) ==
    /\ pc[t] = "acquire"
    /\ IF min_interval = 0
       THEN /\ pc' = [pc EXCEPT ![t] = ret]
            /\ UNCHANGED <<wake, rlVars>>
       ELSE /\ rl_lock = NoTask
            /\ IF now - last_request_time < min_interval
               THEN /\ rl_lock' = LockWhileSleeping(t)
                    /\ wake' = [wake EXCEPT ![t] = now + SleepTime(now)]
                    /\ pc' = [pc EXCEPT ![t] = "rl_sleep"]
                    /\ UNCHANGED <<requests_per_second, min_interval,
                                   last_request_time>>
               ELSE /\ last_request_time' = now
                    /\ rl_lock' = NoTask
                    /\ pc' = [pc EXCEPT ![t] = ret]
                    /\ UNCHANGED <<wake, requests_per_second, min_interval>>

\* acquire(), from the end of its sleep to its return to pc ret.
AcquireWake(t, ret) ==
    /\ pc[t] = "rl_sleep"
    /\ now >= wake[t]
    /\ last_request_time' = now
    /\ rl_lock' = NoTask
    /\ pc' = [pc EXCEPT ![t] = ret]
    /\ UNCHANGED <<wake, requests_per_second, min_interval>>

\* ---------------------------------------------------------- CircuitBreaker
\* CircuitBreaker.__init__
CircuitBreakerInit(threshold, timeout) ==
    /\ failure_threshold = threshold
    /\ recovery_timeout = timeout
    /\ failure_count = 0
    /\ last_failure_time = 0
    /\ state = "CLOSED"
    /\ cb_lock = NoTask

\* if time_since_failure >= self.recovery_timeout
RecoveryElapsedAbsolute(current_time) == current_time >= recovery_timeout
RecoveryElapsed(current_time) ==
    current_time - last_failure_time >= recovery_timeout

\* "Will retry in {self.recovery_timeout - time_since_failure:.1f}s": the
\* remaining wait the rejection announces.
RemainingWaitSinceEpoch(current_time) == recovery_timeout - current_time
RemainingWait(current_time) ==
    recovery_timeout - (current_time - last_failure_time)

\* The wrapped function is awaited inside "async with self._lock": the caller
\* keeps the lock while the function runs.
LockWhileCallingReleased(t) == NoTask
LockWhileCalling(t) == t

\* call(), from the call to the rejection or to the entry of the wrapped
\* function at pc entry.  A task at "cb_call" with the lock taken is waiting.
CBEnter(t, entry) ==
    /\ pc[t] = "cb_call"
    /\ cb_lock = NoTask
    /\ IF state = "OPEN"
       THEN IF RecoveryElapsed(now)
            THEN /\ state' = "HALF_OPEN"
                 /\ cb_lock' = LockWhileCalling(t)
                 /\ pc' = [pc EXCEPT ![t] = entry]
                 /\ UNCHANGED <<result, retry_in>>
            ELSE /\ result' = [result EXCEPT ![t] = Raised(CircuitBreakerOpenError, 0)]
                 /\ retry_in' = [retry_in EXCEPT ![t] = RemainingWait(now)]
                 /\ pc' = [pc EXCEPT ![t] = "idle"]
                 /\ UNCHANGED <<state, cb_lock>>
       ELSE /\ cb_lock' = LockWhileCalling(t)
            /\ pc' = [pc EXCEPT ![t] = entry]
            /\ UNCHANGED <<state, result, retry_in>>
    /\ UNCHANGED <<failure_threshold, recovery_timeout, failure_count,
                   last_failure_time, successes, failures, func_exc>>

\* The state after a successful wrapped call.
StateAfterSuccess == IF state = "HALF_OPEN" THEN "CLOSED" ELSE state
CountAfterSuccessNoReset == failure_count
CountAfterSuccessAlwaysReset == 0
CountAfterSuccess == IF state = "HALF_OPEN" THEN 0 ELSE failure_count

\* call(), the bookkeeping after the wrapped function returned.
CBSuccess ==
    /\ state' = StateAfterSuccess
    /\ failure_count' = CountAfterSuccess
    /\ cb_lock' = NoTask
    /\ successes' = successes + 1
    /\ UNCHANGED <<failure_threshold, recovery_timeout, last_failure_time,
                   failures, func_exc, retry_in>>

\* if self.failure_count >= self.failure_threshold: self.state = "OPEN"
StateAfterFailureStrict(count) ==
    IF count > failure_threshold THEN "OPEN" ELSE state
StateAfterFailureWhenClosed(count) ==
    IF state = "CLOSED" /\ count >= failure_threshold THEN "OPEN" ELSE state
StateAfterFailure(count) ==
    IF count >= failure_threshold THEN "OPEN" ELSE state

\* raise e: what call() raises after it recorded the failure of a function
\* that raised e.
RaiseBreakerOpen(e) == CircuitBreakerOpenError
Reraise(e) == e

\* "async with self._lock" releases the lock when the exception leaves it.
LockAfterRaiseKept == cb_lock
LockAfterRaise == NoTask

\* self.failure_count += 1, once for the exception the wrapped function of
\* task t let through, however many attempts the function made.
CountAfterFailurePerAttempt(t) == failure_count + attempt[t] + 1
CountAfterFailure(t) == failure_count + 1

\* call(), the bookkeeping after the function wrapped for task t raised e.
CBFailure(t, e) ==
    /\ func_exc' = [func_exc EXCEPT ![t] = e]
    /\ failure_count' = CountAfterFailure(t)
    /\ last_failure_time' = now
    /\ state' = StateAfterFailure(CountAfterFailure(t))
    /\ cb_lock' = LockAfterRaise
    /\ failures' = failures + 1
    /\ UNCHANGED <<failure_threshold, recovery_timeout, successes, retry_in>>

\* -------------------------------------------------------------- AsyncCache
\* AsyncCache.__init__(default_ttl=300)
DefaultTTL == 300
\* A cache key: the parts _generate_cache_key joins with ":".
NoKey == [method |-> "", url |-> "", params |-> <<>>]
NoCacheOp == [op |-> "none", key |-> NoKey, value |-> None, n |-> 0]
EmptyCache == <<>>

\* AsyncCache.__init__
AsyncCacheInit(ttl) ==
    /\ default_ttl = ttl
    /\ cache = EmptyCache
    /\ cache_op = NoCacheOp
    /\ last_set = EmptyCache

\* ttl = ttl or self.default_ttl: None and 0 both give the default.
TTLOrDefault(ttl) == IF ttl = NoTTL \/ ttl = 0 THEN default_ttl ELSE ttl

\* if key in self._cache ... if time.time() < expiry
CacheHit(key, current_time) ==
    key \in DOMAIN cache /\ current_time < cache[key].expiry

\* What get(key) returns: the stored value, None for a missing or expired key.
GetValue(key, current_time) ==
    IF CacheHit(key, current_time) THEN cache[key].value ELSE None

\* The next operation record: op number n + 1.
CacheOp(op, key, value) ==
    [op |-> op, key |-> key, value |-> value, n |-> cache_op.n + 1]

\* AsyncCache.get(key): an expired entry is deleted.  The lock is free
\* whenever it is asked for (no holder ever suspends), so every operation of
\* the cache runs without interruption.
CacheGet(key) ==
    /\ cache' = IF key \in DOMAIN cache /\ ~CacheHit(key, now)
                THEN [k \in DOMAIN cache \ {key} |-> cache[k]]
                ELSE cache
    /\ cache_op' = CacheOp("get", key, GetValue(key, now))
    /\ UNCHANGED <<default_ttl, last_set>>

\* AsyncCache.set(key, value, ttl)
CacheSet(key, value, ttl) ==
    /\ cache' = [k \in DOMAIN cache \cup {key} |->
                    IF k = key
                    THEN [value |-> value, expiry |-> now + TTLOrDefault(ttl)]
                    ELSE cache[k]]
    /\ cache_op' = CacheOp("set", key, value)
    /\ last_set' = [k \in DOMAIN last_set \cup {key} |->
                       IF k = key
                       THEN [value |-> value, time |-> now, ttl |-> ttl]
                       ELSE last_set[k]]
    /\ UNCHANGED default_ttl

\* AsyncCache.clear()
CacheClear ==
    /\ cache' = EmptyCache
    /\ cache_op' = CacheOp("clear", NoKey, None)
    /\ last_set' = EmptyCache
    /\ UNCHANGED default_ttl

\* if current_time >= expiry
IsExpiredAfter(expiry, current_time) == current_time > expiry
IsExpired(expiry, current_time) == current_time >= expiry

\* AsyncCache.cleanup_expired(): deletes the keys with current_time >= expiry.
CleanupExpired ==
    /\ cache' = [k \in {j \in DOMAIN cache :
                            ~IsExpired(cache[j].expiry, now)} |-> cache[k]]
    /\ cache_op' = CacheOp("cleanup_expired", NoKey, None)
    /\ UNCHANGED <<default_ttl, last_set>>

\* ------------------------------------------------------ _generate_cache_key
\* method.upper()
Upper(method) ==
    CASE method = "get" -> "GET"
      [] method = "post" -> "POST"
      [] OTHER -> method

\* The order of parameter names as Python compares strings.
NameRank(name) ==
    CASE name = "a" -> 1
      [] name = "b" -> 2
      [] name = "c" -> 3

\* Tuple comparison of two (name, value) items: by name, then by value.
ItemLess(x, y) ==
    \/ NameRank(x[1]) < NameRank(y[1])
    \/ x[1] = y[1] /\ x[2] < y[2]

\* params.items() as it comes: in insertion order.
UnsortedItems(items) == items

\* sorted(params.items())
RECURSIVE SortedItems(_)
SortedItems(items) ==
    IF items = <<>>
    THEN <<>>
    ELSE LET least == CHOOSE i \in 1..Len(items) :
                        \A j \in 1..Len(items) : ~ItemLess(items[j], items[i])
             others == [j \in 1..(Len(items) - 1) |->
                          IF j < least THEN items[j] ELSE items[j + 1]]
         IN <<items[least]>> \o SortedItems(others)

\* _generate_cache_key(method, url, params): the upper-cased method, the URL
\* and, for non-empty params, the sorted items, joined by ":".  The key is
\* kept as its parts; empty params add no part.
GenerateCacheKey(method, url, params) ==
    [method |-> Upper(method), url |-> url, params |-> SortedItems(params)]

\* ---- _build_url
\* A URL or an endpoint is the sequence of its characters: "/", "a" for any
\* character that is neither a slash nor part of a scheme, and "http:" and
\* "https:" for those characters in a row.
HttpSchemes == {"http:", "https:"}

\* s.rstrip("/") and s.lstrip("/")
RECURSIVE RStrip(_)
RStrip(s) ==
    IF s # <<>> /\ s[Len(s)] = "/" THEN RStrip(SubSeq(s, 1, Len(s) - 1))
    ELSE s

KeepLeadingSlashes(s) == s
RECURSIVE LStrip(_)
LStrip(s) == IF s # <<>> /\ Head(s) = "/" THEN LStrip(Tail(s)) ELSE s

\* endpoint.startswith(("http://", "https://"))
StartsWithScheme(s) ==
    Len(s) >= 3 /\ s[1] \in HttpSchemes /\ s[2] = "/" /\ s[3] = "/"

\* self.base_url = base_url.rstrip("/") + "/" if base_url else ""
NormalizeBaseUrl(b) == IF b # <<>> THEN Append(RStrip(b), "/") ELSE <<>>

\* _build_url(endpoint)
BuildUrl(e) == IF StartsWithScheme(e) THEN e ELSE base_url \o LStrip(e)

\* ---- the header merge of request()
\* A dictionary of headers is a function from the names it holds to their
\* values; the empty one also stands for headers=None, which the code treats
\* alike ("default_headers or {}", "if headers:").
\* merged_headers = self.default_headers.copy(); if headers: update(headers)
MergeHeadersDefaultsWin(d, h) ==
    [k \in DOMAIN d \cup DOMAIN h |-> IF k \in DOMAIN d THEN d[k] ELSE h[k]]
MergeHeaders(d, h) ==
    [k \in DOMAIN d \cup DOMAIN h |-> IF k \in DOMAIN h THEN h[k] ELSE d[k]]

\* The client built without base_url and default_headers, before any call.
HelpersUnused ==
    /\ base_url_arg = <<>>
    /\ base_url = <<>>
    /\ endpoint = <<>>
    /\ full_url = <<>>
    /\ default_headers = <<>>
    /\ headers = <<>>
    /\ merged_headers = <<>>

\* headers=None, and the empty dictionary the code treats alike.
NoHeaders == <<>>

\* get_multiple before any call.
NoGetMultiple ==
    /\ gm_pc = "idle"
    /\ gm_endpoints = <<>>
    /\ gm_results = [kind |-> "none", value |-> <<>>, exc |-> NoException]

\* request() before any call: no arguments.
NoArgs ==
    [method |-> "", url |-> "", params |-> <<>>, use_cache |-> FALSE,
     cache_ttl |-> NoTTL]

\* The client's variables under the specifications of a single component.
ClientUnused ==
    /\ max_retries = 0
    /\ circuit_breaker = FALSE
    /\ session = "none"
    /\ session_id = 0
    /\ connector = "open"
    /\ closes = 0
    /\ request_count = 0
    /\ error_count = 0
    /\ last_requests = <<>>
    /\ attempt = [t \in Tasks |-> 0]
    /\ last_exception = [t \in Tasks |-> NoException]
    /\ sleeps = [t \in Tasks |-> <<>>]
    /\ outcome = [t \in Tasks |-> NoOutcome]
    /\ args = [t \in Tasks |-> NoArgs]
    /\ req_headers = [t \in Tasks |-> NoHeaders]
    /\ issued_on = [t \in Tasks |-> "none"]
    /\ NoGetMultiple
    /\ cache_key = [t \in Tasks |-> NoKey]
    /\ response = [t \in Tasks |-> None]
    /\ simple_response = [t \in Tasks |-> NoSimpleResponse]

\* ------------------------------------- SpecRL: callers of RateLimiter.acquire
InitRL ==
    /\ NoDeadlines
    /\ now = Epoch
    /\ pc = [t \in Tasks |-> "idle"]
    /\ wake = [t \in Tasks |-> 0]
    /\ \E r \in Rates : RateLimiterInit(r)
    /\ CircuitBreakerInit(1, 1)
    /\ AsyncCacheInit(DefaultTTL)
    /\ result = [t \in Tasks |-> NoResult]
    /\ grants = <<>>
    /\ successes = 0
    /\ failures = 0
    /\ func_exc = [t \in Tasks |-> NoException]
    /\ retry_in = [t \in Tasks |-> 0]
    /\ started = 0
    /\ HelpersUnused
    /\ ClientUnused

\* A task calls rate_limiter.acquire().
AcquireCall(t) ==
    /\ pc[t] = "idle"
    /\ started < MaxAcquires
    /\ started' = started + 1
    /\ pc' = [pc EXCEPT ![t] = "acquire"]
    /\ UNCHANGED <<now, fnVars, dlVars, gmVars, wake, rlVars, cbVars, clVars, caVars, rqVars, result,
                   grants, cbHist>>

RLEnter(t) ==
    /\ AcquireEnter(t, "idle")
    /\ grants' = IF pc'[t] = "idle" THEN Append(grants, now) ELSE grants
    /\ UNCHANGED <<now, fnVars, dlVars, gmVars, cbVars, clVars, caVars, rqVars, result, cbHist,
                   started>>

RLWake(t) ==
    /\ AcquireWake(t, "idle")
    /\ grants' = Append(grants, now)
    /\ UNCHANGED <<now, fnVars, dlVars, gmVars, cbVars, clVars, caVars, rqVars, result, cbHist,
                   started>>

NextRL ==
    \/ Tick
    \/ \E t \in Tasks : AcquireCall(t)
    \/ \E t \in Tasks : RLEnter(t)
    \/ \E t \in Tasks : RLWake(t)

SpecRL == InitRL /\ [][NextRL]_vars

\* ----------------- SpecCB: callers of CircuitBreaker.call(func), any func
InitCB ==
    /\ NoDeadlines
    /\ now = Epoch
    /\ pc = [t \in Tasks |-> "idle"]
    /\ wake = [t \in Tasks |-> 0]
    /\ RateLimiterInit(Unlimited)
    /\ \E n \in 1..MaxThreshold, r \in 1..MaxRecovery : CircuitBreakerInit(n, r)
    /\ AsyncCacheInit(DefaultTTL)
    /\ result = [t \in Tasks |-> NoResult]
    /\ grants = <<>>
    /\ successes = 0
    /\ failures = 0
    /\ func_exc = [t \in Tasks |-> NoException]
    /\ retry_in = [t \in Tasks |-> 0]
    /\ started = 0
    /\ HelpersUnused
    /\ ClientUnused

\* A task calls circuit_breaker.call(func).
BreakerCall(t) ==
    /\ pc[t] = "idle"
    /\ started < MaxCalls
    /\ started' = started + 1
    /\ pc' = [pc EXCEPT ![t] = "cb_call"]
    /\ result' = [result EXCEPT ![t] = NoResult]
    /\ UNCHANGED <<now, fnVars, dlVars, gmVars, wake, rlVars, cbVars, clVars, caVars, rqVars, grants,
                   cbHist>>

BreakerEnter(t) ==
    /\ CBEnter(t, "func")
    /\ UNCHANGED <<now, fnVars, dlVars, gmVars, wake, rlVars, clVars, caVars, rqVars, grants,
                   started>>

\* The wrapped function returns; call() records the success and returns.
FuncReturn(t) ==
    /\ pc[t] = "func"
    /\ CBSuccess
    /\ pc' = [pc EXCEPT ![t] = "idle"]
    /\ result' = [result EXCEPT ![t] = Returned(1)]
    /\ UNCHANGED <<now, fnVars, dlVars, gmVars, wake, rlVars, clVars, caVars, rqVars, grants,
                   started>>

\* The wrapped function raises e; call() records the failure and re-raises.
FuncRaise(t, e) ==
    /\ pc[t] = "func"
    /\ CBFailure(t, e)
    /\ pc' = [pc EXCEPT ![t] = "idle"]
    /\ result' = [result EXCEPT ![t] = Raised(Reraise(e), 1)]
    /\ UNCHANGED <<now, fnVars, dlVars, gmVars, wake, rlVars, clVars, caVars, rqVars, grants,
                   started>>

NextCB ==
    \/ Tick
    \/ \E t \in Tasks : BreakerCall(t)
    \/ \E t \in Tasks : BreakerEnter(t)
    \/ \E t \in Tasks : FuncReturn(t)
    \/ \E t \in Tasks, e \in FuncErrors : FuncRaise(t, e)

SpecCB == InitCB /\ [][NextCB]_vars

\* ------------------------------------------------------ AsyncNetworkClient
\* CircuitBreaker() as the client constructs it: the defaults of __init__.
DefaultFailureThreshold == 5
DefaultRecoveryTimeout == 60
\* backoff = min(2**attempt, 30)
BackoffCap == 30
\* AsyncNetworkClient.__init__(cache_ttl=60)
ClientCacheTTL == 60

\* What a transport attempt ends with: an HTTP status, or NoResponse.
Statuses == {200, 400, 500}
Outcomes == Statuses \cup {NoResponse}

ClientResponseError(s) == [type |-> "ClientResponseError", status |-> s]
ClientConnectionError == [type |-> "ClientConnectionError", status |-> 0]
SessionClosedError == [type |-> "RuntimeError", status |-> 0]

\* response.raise_for_status() raises for a status of 400 and above.
RaisesForStatus(s) == s >= 400

\* The exception an attempt that ends with outcome o raises.
ExceptionOf(o) ==
    IF o = SessionIsClosed THEN SessionClosedError
    ELSE IF o = NoResponse THEN ClientConnectionError
         ELSE ClientResponseError(o)

\* isinstance(e, aiohttp.ClientResponseError) and 400 <= e.status < 500
IsClientErrorAbove400(e) ==
    e.type = "ClientResponseError" /\ 400 < e.status /\ e.status < 500
IsClientError(e) ==
    e.type = "ClientResponseError" /\ 400 <= e.status /\ e.status < 500

\* if attempt < self.max_retries
HasRetriesLeft(a) == a < max_retries

\* backoff = min(2**attempt, 30)
BackoffUncapped(a) == 2 ^ a
Backoff(a) == Min(2 ^ a, BackoffCap)

\* last_exception = e: the exception the loop keeps for the raise after it,
\* given the one kept so far and the one the current attempt raised.
FirstException(kept, e) == IF kept = NoException THEN e ELSE kept
LastException(kept, e) == e

\* if self._session is None or self._session.closed
NeedsNewSessionIfNone == session = "none"
NeedsNewSession == session = "none" \/ session = "closed"

\* _get_session(): the session after the call, and the number of sessions
\* created up to and including it.  A new session is created on the client's
\* one connector, ClientSession(connector=self._connector), and a
\* ClientSession reports closed when its connector is closed.
SessionAfterGet == IF NeedsNewSession THEN connector ELSE session
SessionIdAfterGet == IF NeedsNewSession THEN session_id + 1 ELSE session_id

\* if self._session and not self._session.closed: await self._session.close()
SessionAfterCloseKept == session
SessionAfterClose == IF session = "open" THEN "closed" ELSE session
\* session.close() closes the connector the session was created on.
ConnectorAfterClose == IF session = "open" THEN "closed" ELSE connector

\* self.last_requests = deque(maxlen=100)
TelemetryMaxLen == 100

\* A bounded buffer that refuses the new element when it is full.
DequeAppendKeepOldest(q, r) ==
    IF Len(q) >= TelemetryMaxLen THEN q ELSE Append(q, r)

\* deque.append: a full deque drops its oldest element.
DequeAppend(q, r) ==
    IF Len(q) >= TelemetryMaxLen THEN Append(Tail(q), r) ELSE Append(q, r)

\* The request counters and the request history of the client.
Telemetry ==
    [request_count |-> request_count, error_count |-> error_count,
     last_requests |-> last_requests]

\* The record _log_request stores: the status it was given and str(error),
\* or None without an error.
RequestRecord(status, error) == [status |-> status, error |-> error.type]

\* _log_request(method, url, status, duration, error) on telemetry tm.
LogRequest(tm, status, error) ==
    [request_count |-> tm.request_count + 1,
     error_count |-> IF error # NoException
                     THEN tm.error_count + 1 ELSE tm.error_count,
     last_requests |-> DequeAppend(tm.last_requests,
                                   RequestRecord(status, error))]

\* The telemetry after the attempt that ends with outcome o.  A response is
\* logged with its status as soon as it arrives, before raise_for_status();
\* whatever the attempt raises is logged by the except clause with status 0.
LogAttempt(o) ==
    IF o \in {NoResponse, SessionIsClosed}
    THEN LogRequest(Telemetry, 0, ExceptionOf(o))
    ELSE IF RaisesForStatus(o)
         THEN LogRequest(LogRequest(Telemetry, o, NoException),
                         0, ExceptionOf(o))
         ELSE LogRequest(Telemetry, o, NoException)

SetTelemetry(tm) ==
    /\ request_count' = tm.request_count
    /\ error_count' = tm.error_count
    /\ last_requests' = tm.last_requests

\* ---- the response body and what request() makes of it
\* A response body: the content-type header and the text.
Body(content_type, text) == [content_type |-> content_type, text |-> text]
JsonBody == Body("application/json", "{a}")
OtherJsonBody == Body("application/json", "{b}")
NullBody == Body("application/json", "null")
BadJsonBody == Body("application/json", "{bad")
TextBody == Body("text/plain", "hello")
EmptyBody == Body("application/json", "")
\* A JSON document in a response that does not announce JSON.
SniffedJsonBody == Body("text/plain", "{a}")
\* Text with white space around it, and nothing but white space.
PaddedTextBody == Body("text/plain", " hello ")
WhiteSpaceBody == Body("text/plain", " ")
\* "[[[[" stands for brackets nested deeper than the interpreter's recursion
\* limit.
DeepJsonBody == Body("application/json", "[[[[")

\* text.strip()
Strip(text) ==
    IF text = " hello " THEN "hello" ELSE IF text = " " THEN "" ELSE text

\* not text_response.strip()
IsBlank(text) == Strip(text) = ""

\* The content type announces JSON or the stripped text starts with "{" or "[".
TriesJson(body) ==
    \/ body.content_type \in {"application/json", "application/javascript"}
    \/ Strip(body.text) \in {"{a}", "{b}", "{bad", "[[[["}

\* json.loads(text) succeeds.
ValidJson(text) == text \in {"{a}", "{b}", "null"}

\* What json.loads(text) raises: nothing for a valid text, RecursionError for
\* nesting beyond the recursion limit, JSONDecodeError for any other text.
JSONDecodeError == [type |-> "JSONDecodeError", status |-> 0]
RecursionError == [type |-> "RecursionError", status |-> 0]
JsonLoadsRaises(text) ==
    IF ValidJson(text) THEN NoException
    ELSE IF text = "[[[[" THEN RecursionError ELSE JSONDecodeError

\* except (json.JSONDecodeError, ValueError)
ParseCatches(e) == e.type \in {"JSONDecodeError", "ValueError"}

\* json.loads is tried on the body and raises what the except clause does
\* not catch.
ParseRaises(body) ==
    /\ ~IsBlank(body.text)
    /\ TriesJson(body)
    /\ ~ValidJson(body.text)
    /\ ~ParseCatches(JsonLoadsRaises(body.text))

\* json.loads(text) for a valid text: the document "null" loads as None.
JsonLoads(text) ==
    IF text = "null" THEN None ELSE [kind |-> "json", body |-> text]

\* The raw text as request() returns it.
RawText(text) == [kind |-> "text", body |-> text]

\* The body was parsed as JSON: request() goes on to its caching step.  An
\* empty body, a body that is not tried as JSON and a body that fails to
\* parse are returned by an earlier return statement.
ReachesCacheStep(body) ==
    ~IsBlank(body.text) /\ TriesJson(body) /\ ValidJson(body.text)

\* What request() returns for the body.
ParseResponse(body) ==
    IF IsBlank(body.text) THEN None
    ELSE IF TriesJson(body) /\ ValidJson(body.text)
         THEN JsonLoads(body.text)
         ELSE RawText(body.text)

\* if method.upper() == "GET" and use_cache
UsesCacheAnyMethod(a) == a.use_cache
UsesCache(a) == Upper(a.method) = "GET" /\ a.use_cache

\* What request() gives its caller once the retry executor returned the
\* response of the current attempt.
ResultOnSuccessStale(t) ==
    IF last_exception[t] # NoException
    THEN Raised(last_exception[t], attempt[t] + 1)
    ELSE Returned(attempt[t] + 1)
ResultOnSuccess(t) == Returned(attempt[t] + 1)

\* What _generate_cache_key is given besides the method and the URL: the
\* query parameters.  The headers h of the call are no part of the key.
KeyParamsAndHeaders(a, h) ==
    a.params \o
    (IF "Authorization" \in DOMAIN h
     THEN <<<<"c", IF h["Authorization"] = "v1" THEN 1 ELSE 2>>>> ELSE <<>>)
KeyParams(a, h) == a.params

\* request(): a task calls it with arguments a and headers h; limit bounds the calls
\* explored.  A cache-eligible call looks its key up first and returns the
\* cached value when the lookup gives one; every other call goes on to the
\* breaker or, without one, to the retry executor.
RequestWith(t, a, h) ==
    LET key == GenerateCacheKey(a.method, a.url, KeyParams(a, h))
        cached_response == GetValue(key, now)
    IN /\ args' = [args EXCEPT ![t] = a]
       /\ req_headers' = [req_headers EXCEPT ![t] = h]
       /\ simple_response' = [simple_response EXCEPT ![t] = NoSimpleResponse]
       /\ IF UsesCache(a)
          THEN /\ CacheGet(key)
               /\ cache_key' = [cache_key EXCEPT ![t] = key]
          ELSE /\ UNCHANGED caVars
               /\ cache_key' = [cache_key EXCEPT ![t] = NoKey]
       /\ IF UsesCache(a) /\ cached_response # None
          THEN /\ result' = [result EXCEPT ![t] = Returned(0)]
               /\ response' = [response EXCEPT ![t] = cached_response]
               /\ UNCHANGED pc
          ELSE /\ result' = [result EXCEPT ![t] = NoResult]
               /\ response' = [response EXCEPT ![t] = None]
               /\ pc' = [pc EXCEPT ![t] = IF circuit_breaker
                                          THEN "cb_call" ELSE "exec"]

RequestOf(t, limit, inputs, hs) ==
    /\ pc[t] = "idle"
    /\ started < limit
    /\ started' = started + 1
    /\ \E a \in inputs, h \in hs : RequestWith(t, a, h)
    /\ sleeps' = [sleeps EXCEPT ![t] = <<>>]
    /\ outcome' = [outcome EXCEPT ![t] = NoOutcome]
    /\ attempt' = [attempt EXCEPT ![t] = 0]
    /\ last_exception' = [last_exception EXCEPT ![t] = NoException]
    /\ UNCHANGED <<now, fnVars, dlVars, gmVars, wake, rlVars, cbVars, max_retries, circuit_breaker,
                   session, session_id, connector, closes, issued_on, request_count,
                   error_count, last_requests, grants, cbHist>>

\* request() called without headers.
Request(t, limit, inputs) == RequestOf(t, limit, inputs, {NoHeaders})

\* circuit_breaker.call(self._make_request_with_retry, ...): the state check.
BreakerAdmit(t) ==
    /\ circuit_breaker
    /\ CBEnter(t, "exec")
    /\ UNCHANGED <<now, fnVars, dlVars, gmVars, wake, rlVars, clVars, caVars, rqVars, grants,
                   started>>

\* _make_request_with_retry, from its entry to the first acquire().
ExecBegin(t) ==
    /\ pc[t] = "exec"
    /\ session' = SessionAfterGet
    /\ session_id' = SessionIdAfterGet
    /\ last_exception' = [last_exception EXCEPT ![t] = NoException]
    /\ attempt' = [attempt EXCEPT ![t] = 0]
    /\ pc' = [pc EXCEPT ![t] = "acquire"]
    /\ UNCHANGED <<now, fnVars, dlVars, gmVars, wake, rlVars, cbVars, max_retries, circuit_breaker,
                   request_count, error_count, last_requests, result, grants,
                   cbHist, sleeps, outcome, closes, issued_on, connector, started, caVars,
                   rqVars>>

\* rate_limiter.acquire() of an attempt; on its return the transport request
\* is issued and the task waits for the response.
\* session.request(...) on the session the executor got from _get_session()
\* at its entry: every session is created on the client's one connector and
\* reports closed once that connector is closed.
IssueOn(t) ==
    /\ issued_on' = IF pc'[t] = "transport"
                    THEN [issued_on EXCEPT ![t] = connector]
                    ELSE issued_on
    /\ UNCHANGED <<max_retries, circuit_breaker, session, session_id,
                   connector, request_count, error_count, last_requests,
                   attempt, last_exception, sleeps, outcome, closes>>

LimiterEnter(t) ==
    /\ AcquireEnter(t, "transport")
    /\ IssueOn(t)
    /\ UNCHANGED <<now, fnVars, dlVars, gmVars, cbVars, caVars, rqVars, result, grants,
                   cbHist, started>>

LimiterWake(t) ==
    /\ AcquireWake(t, "transport")
    /\ IssueOn(t)
    /\ UNCHANGED <<now, fnVars, dlVars, gmVars, cbVars, caVars, rqVars, result, grants,
                   cbHist, started>>

\* The retry executor returns a response with the given body: the breaker
\* records the success, request() parses the body, stores the parsed value
\* for a cache-eligible call when it reaches its caching step, and returns;
\* an exception of json.loads that the except clause does not name is raised
\* to the caller.
FinishReturn(t, body) ==
    /\ IF circuit_breaker THEN CBSuccess ELSE UNCHANGED <<cbVars, cbHist>>
    /\ simple_response' = [simple_response EXCEPT ![t] = body]
    /\ IF ParseRaises(body)
       THEN /\ result' = [result EXCEPT ![t] =
                    Raised(JsonLoadsRaises(body.text), attempt[t] + 1)]
            /\ response' = [response EXCEPT ![t] = None]
       ELSE /\ result' = [result EXCEPT ![t] = ResultOnSuccess(t)]
            /\ response' = [response EXCEPT ![t] = ParseResponse(body)]
    /\ IF ReachesCacheStep(body) /\ UsesCache(args[t])
       THEN /\ CacheSet(GenerateCacheKey(args[t].method, args[t].url,
                                         KeyParams(args[t], req_headers[t])),
                        ParseResponse(body), args[t].cache_ttl)
            /\ cache_key' = [cache_key EXCEPT ![t] =
                    GenerateCacheKey(args[t].method, args[t].url,
                                     KeyParams(args[t], req_headers[t]))]
       ELSE UNCHANGED <<caVars, cache_key>>
    /\ pc' = [pc EXCEPT ![t] = "idle"]
    /\ UNCHANGED <<args, req_headers>>

\* The retry executor raises e, the exception its loop kept ("raise
\* last_exception"): the breaker records the failure and re-raises, and
\* request() lets the exception through.
FinishRaise(t, e) ==
    /\ IF circuit_breaker
       THEN /\ CBFailure(t, e)
            /\ result' = [result EXCEPT ![t] = Raised(Reraise(e), attempt[t] + 1)]
       ELSE /\ UNCHANGED <<cbVars, cbHist>>
            /\ result' = [result EXCEPT ![t] = Raised(e, attempt[t] + 1)]
    /\ pc' = [pc EXCEPT ![t] = "idle"]
    /\ UNCHANGED <<caVars, rqVars>>

\* The attempt in flight ends with outcome o; body is the body of a response
\* with a success status.  An attempt issued on a closed session ends at once
\* with SessionIsClosed and in no other way.
TransportDone(t, o, body) ==
    /\ pc[t] = "transport"
    /\ (o = SessionIsClosed) <=> (issued_on[t] = "closed")
    /\ outcome' = [outcome EXCEPT ![t] = o]
    /\ SetTelemetry(LogAttempt(o))
    /\ IF o \in Statuses /\ ~RaisesForStatus(o)
       THEN /\ FinishReturn(t, body)
            /\ UNCHANGED <<wake, last_exception, sleeps>>
       ELSE /\ last_exception' = [last_exception EXCEPT
                    ![t] = LastException(@, ExceptionOf(o))]
            /\ IF ~IsClientError(ExceptionOf(o)) /\ HasRetriesLeft(attempt[t])
               THEN /\ wake' = [wake EXCEPT ![t] = now + Backoff(attempt[t])]
                    /\ sleeps' = [sleeps EXCEPT
                                    ![t] = Append(@, Backoff(attempt[t]))]
                    /\ pc' = [pc EXCEPT ![t] = "backoff"]
                    /\ UNCHANGED <<cbVars, cbHist, result, caVars, rqVars>>
               ELSE /\ FinishRaise(t, last_exception'[t])
                    /\ UNCHANGED <<wake, sleeps>>
    /\ UNCHANGED <<now, fnVars, dlVars, gmVars, rlVars, max_retries, circuit_breaker, session,
                   session_id, connector, closes, issued_on, attempt, grants, started>>

\* Where an attempt of the retry loop begins: every iteration awaits
\* rate_limiter.acquire() before it calls session.request.
RetryBeginsAtTransport == "transport"
AttemptBegins == "acquire"

\* The backoff sleep ends: the loop goes on to the next attempt.
BackoffWake(t) ==
    /\ pc[t] = "backoff"
    /\ now >= wake[t]
    /\ attempt' = [attempt EXCEPT ![t] = @ + 1]
    /\ pc' = [pc EXCEPT ![t] = AttemptBegins]
    /\ UNCHANGED <<now, fnVars, dlVars, gmVars, wake, rlVars, cbVars, max_retries, circuit_breaker,
                   session, session_id, connector, closes, issued_on, request_count,
                   error_count, last_requests, last_exception, result, grants,
                   cbHist, sleeps, outcome, started, caVars, rqVars>>

\* close(): a task that is not inside a request calls it; limit bounds the
\* calls explored.
Close(t, limit) ==
    /\ pc[t] = "idle"
    /\ started < limit
    /\ started' = started + 1
    /\ session' = SessionAfterClose
    /\ connector' = ConnectorAfterClose
    /\ closes' = closes + 1
    /\ UNCHANGED <<now, fnVars, dlVars, gmVars, issued_on, pc, wake, rlVars, cbVars, max_retries, circuit_breaker,
                   session_id, request_count, error_count, last_requests,
                   attempt, last_exception, sleeps, outcome, caVars, rqVars,
                   result, grants, cbHist>>

\* The event loop has nothing to run until the earliest pending timer: time
\* passes to that deadline.
Sleeping == {t \in Tasks : pc[t] \in {"rl_sleep", "backoff"}}
Timers == {wake[t] : t \in Sleeping} \cup {deadline[t] : t \in Awaited}
TimerFire ==
    /\ Sleeping # {}
    /\ Settled
    /\ \A x \in Timers : x > now
    /\ \E x \in Timers :
        /\ \A y \in Timers : x <= y
        /\ now' = x
    /\ UNCHANGED <<pc, wake, rlVars, cbVars, clVars, caVars, rqVars, result,
                   grants, cbHist, started, fnVars, dlVars, gmVars>>

\* ---- cancellation
\* What task.cancel() raises in the task at the await it is suspended in.
CancelledError == [type |-> "CancelledError", status |-> 0]

\* "except Exception as e" of the retry loop: CancelledError is a
\* BaseException, not an Exception.
RetryCatchesEverything(e) == TRUE
RetryCatches(e) == e.type # "CancelledError"

\* The awaits inside the try block of the retry loop: acquire() and the
\* transport call.
InsideTry(t) == pc[t] \in {"acquire", "rl_sleep", "transport"}

\* The CancelledError leaves request(): "async with" releases the breaker's
\* lock if t holds it, "except Exception" of call() does not record it.
Propagate(t) ==
    /\ cb_lock' = IF cb_lock = t THEN NoTask ELSE cb_lock
    /\ result' = [result EXCEPT ![t] = Raised(CancelledError, attempt[t])]
    /\ pc' = [pc EXCEPT ![t] = "idle"]
    /\ UNCHANGED <<failure_threshold, recovery_timeout, failure_count,
                   last_failure_time, state>>

\* The deadline of t's caller has come while t is suspended inside request():
\* CancelledError is raised at that await.  "async with" releases the rate
\* limiter's lock if t holds it.  An except clause of the retry loop that
\* catches the error treats it as a failed attempt.
Cancel(t) ==
    /\ t \in Awaited
    /\ now >= deadline[t]
    /\ cancelled' = [cancelled EXCEPT ![t] = TRUE]
    /\ rl_lock' = IF rl_lock = t THEN NoTask ELSE rl_lock
    /\ IF InsideTry(t) /\ RetryCatches(CancelledError)
       THEN /\ SetTelemetry(LogRequest(Telemetry, 0, CancelledError))
            /\ last_exception' = [last_exception EXCEPT
                    ![t] = LastException(@, CancelledError)]
            /\ IF HasRetriesLeft(attempt[t])
               THEN /\ wake' = [wake EXCEPT ![t] = now + Backoff(attempt[t])]
                    /\ sleeps' = [sleeps EXCEPT
                                    ![t] = Append(@, Backoff(attempt[t]))]
                    /\ pc' = [pc EXCEPT ![t] = "backoff"]
                    /\ UNCHANGED <<cbVars, result>>
               ELSE /\ Propagate(t)
                    /\ UNCHANGED <<wake, sleeps>>
       ELSE /\ Propagate(t)
            /\ UNCHANGED <<request_count, error_count, last_requests,
                           last_exception, wake, sleeps>>
    /\ UNCHANGED <<now, fnVars, gmVars, deadline, requests_per_second,
                   min_interval, last_request_time,
                   max_retries, circuit_breaker, session, session_id,
                   connector, attempt, outcome, closes, issued_on, caVars, rqVars,
                   grants, cbHist, started>>

\* AsyncNetworkClient.__init__ with enable_circuit_breaker = breaker,
\* max_retries = retries and cache_ttl = ttl.
ClientInit(breaker, retries, ttl) ==
    /\ now = Epoch
    /\ pc = [t \in Tasks |-> "idle"]
    /\ wake = [t \in Tasks |-> 0]
    /\ \E r \in ClientRates : RateLimiterInit(r)
    /\ CircuitBreakerInit(DefaultFailureThreshold, DefaultRecoveryTimeout)
    /\ AsyncCacheInit(ttl)
    /\ max_retries = retries
    /\ circuit_breaker = breaker
    /\ session = "none"
    /\ session_id = 0
    /\ connector = "open"
    /\ closes = 0
    /\ request_count = 0
    /\ error_count = 0
    /\ last_requests = <<>>
    /\ attempt = [t \in Tasks |-> 0]
    /\ last_exception = [t \in Tasks |-> NoException]
    /\ result = [t \in Tasks |-> NoResult]
    /\ grants = <<>>
    /\ successes = 0
    /\ failures = 0
    /\ func_exc = [t \in Tasks |-> NoException]
    /\ retry_in = [t \in Tasks |-> 0]
    /\ sleeps = [t \in Tasks |-> <<>>]
    /\ outcome = [t \in Tasks |-> NoOutcome]
    /\ started = 0
    /\ HelpersUnused
    /\ args = [t \in Tasks |-> NoArgs]
    /\ req_headers = [t \in Tasks |-> NoHeaders]
    /\ issued_on = [t \in Tasks |-> "none"]
    /\ NoGetMultiple
    /\ cache_key = [t \in Tasks |-> NoKey]
    /\ response = [t \in Tasks |-> None]
    /\ simple_response = [t \in Tasks |-> NoSimpleResponse]

\* A GET that does not use the cache.
PlainGet ==
    [method |-> "GET", url |-> "u1", params |-> <<>>, use_cache |-> FALSE,
     cache_ttl |-> NoTTL]

\* ------------------------------- Spec: concurrent request() on one client
Init ==
    /\ NoDeadlines
    /\ \E b \in BOOLEAN, r \in 0..MaxClientRetries :
        ClientInit(b, r, ClientCacheTTL)

Next ==
    \/ Tick
    \/ TimerFire
    \/ \E t \in Tasks : Request(t, MaxRequests, {PlainGet})
    \/ \E t \in Tasks : BreakerAdmit(t)
    \/ \E t \in Tasks : ExecBegin(t)
    \/ \E t \in Tasks : LimiterEnter(t)
    \/ \E t \in Tasks : LimiterWake(t)
    \/ \E t \in Tasks, o \in Outcomes : TransportDone(t, o, JsonBody)
    \/ \E t \in Tasks : BackoffWake(t)

Spec == Init /\ [][Next]_vars

\* --- SpecRetry: one caller's requests through the retry executor, with no
\* breaker around it, for every max_retries
InitRetry ==
    /\ NoDeadlines
    /\ \E r \in 0..MaxRetries : ClientInit(FALSE, r, ClientCacheTTL)

NextRetry ==
    \/ Tick
    \/ TimerFire
    \/ Request(Caller, MaxRetryRequests, {PlainGet})
    \/ ExecBegin(Caller)
    \/ LimiterEnter(Caller)
    \/ LimiterWake(Caller)
    \/ \E o \in Outcomes : TransportDone(Caller, o, JsonBody)
    \/ BackoffWake(Caller)

SpecRetry == InitRetry /\ [][NextRetry]_vars

\* --- SpecOpen: one caller's requests on a client with its breaker, enough
\* of them for the breaker to open
\* The transport outcomes explored under SpecOpen.
OpenOutcomes == {200, 400, 500}

InitOpen ==
    /\ NoDeadlines
    /\ \E r \in 0..MaxClientRetries : ClientInit(TRUE, r, ClientCacheTTL)

NextOpen ==
    \/ Tick
    \/ TimerFire
    \/ Request(Caller, MaxOpenRequests, {PlainGet})
    \/ BreakerAdmit(Caller)
    \/ ExecBegin(Caller)
    \/ LimiterEnter(Caller)
    \/ LimiterWake(Caller)
    \/ \E o \in OpenOutcomes : TransportDone(Caller, o, JsonBody)
    \/ BackoffWake(Caller)

SpecOpen == InitOpen /\ [][NextOpen]_vars

\* --- SpecSession: one caller's request() and close() calls, in any order
\* A GET that uses the cache.
CachedGet ==
    [method |-> "GET", url |-> "u1", params |-> <<>>, use_cache |-> TRUE,
     cache_ttl |-> NoTTL]

InitSession ==
    /\ NoDeadlines
    /\ \E b \in BOOLEAN : ClientInit(b, 0, ClientCacheTTL)

NextSession ==
    \/ Tick
    \/ TimerFire
    \/ Request(Caller, MaxSessionCalls, {PlainGet, CachedGet})
    \/ Close(Caller, MaxSessionCalls)
    \/ BreakerAdmit(Caller)
    \/ ExecBegin(Caller)
    \/ LimiterEnter(Caller)
    \/ LimiterWake(Caller)
    \/ \E o \in Outcomes \cup {SessionIsClosed} :
            TransportDone(Caller, o, JsonBody)

SpecSession == InitSession /\ [][NextSession]_vars

\* --------- SpecUrl: _build_url on every base_url and endpoint up to a length
BaseUrls ==
    UNION {[1..n -> {"/", "a", "https:"}] : n \in 0..MaxBaseUrlLen}
Endpoints ==
    UNION {[1..n -> {"/", "a"} \cup HttpSchemes] : n \in 0..MaxEndpointLen}

\* The variables of the other components under SpecUrl and SpecHeaders.
OthersUnused ==
    /\ NoDeadlines
    /\ now = Epoch
    /\ pc = [t \in Tasks |-> "idle"]
    /\ wake = [t \in Tasks |-> 0]
    /\ RateLimiterInit(Unlimited)
    /\ CircuitBreakerInit(1, 1)
    /\ AsyncCacheInit(DefaultTTL)
    /\ result = [t \in Tasks |-> NoResult]
    /\ grants = <<>>
    /\ successes = 0
    /\ failures = 0
    /\ func_exc = [t \in Tasks |-> NoException]
    /\ retry_in = [t \in Tasks |-> 0]
    /\ ClientUnused

\* AsyncNetworkClient(base_url=b), and the endpoint of the call to come.
InitUrl ==
    /\ OthersUnused
    /\ started = 0
    /\ \E b \in BaseUrls :
        /\ base_url_arg = b
        /\ base_url = NormalizeBaseUrl(b)
    /\ endpoint \in Endpoints
    /\ full_url = <<>>
    /\ default_headers = <<>>
    /\ headers = <<>>
    /\ merged_headers = <<>>

\* self._build_url(endpoint)
BuildUrlCall ==
    /\ started = 0
    /\ started' = 1
    /\ full_url' = BuildUrl(endpoint)
    /\ UNCHANGED <<now, dlVars, gmVars, pc, wake, rlVars, cbVars, clVars, caVars,
                   rqVars, result, grants, cbHist, base_url_arg, base_url, endpoint,
                   default_headers, headers, merged_headers>>

NextUrl == BuildUrlCall

SpecUrl == InitUrl /\ [][NextUrl]_vars

\* --- SpecHeaders: the header merge on every pair of small dictionaries
HeaderNames == {"Authorization", "User-Agent", "X-Custom-Header"}
HeaderValues == {"v1", "v2"}
HeaderDicts == UNION {[S -> HeaderValues] : S \in SUBSET HeaderNames}

\* AsyncNetworkClient(default_headers=d), and the headers of the call to come.
InitHeaders ==
    /\ OthersUnused
    /\ started = 0
    /\ base_url_arg = <<>>
    /\ base_url = <<>>
    /\ endpoint = <<>>
    /\ full_url = <<>>
    /\ default_headers \in HeaderDicts
    /\ headers \in HeaderDicts
    /\ merged_headers = <<>>

\* request(), the header merge.
MergeHeadersCall ==
    /\ started = 0
    /\ started' = 1
    /\ merged_headers' = MergeHeaders(default_headers, headers)
    /\ UNCHANGED <<now, dlVars, gmVars, pc, wake, rlVars, cbVars, clVars, caVars,
                   rqVars, result, grants, cbHist, base_url_arg, base_url, endpoint,
                   full_url, default_headers, headers>>

NextHeaders == MergeHeadersCall

SpecHeaders == InitHeaders /\ [][NextHeaders]_vars

\* --- SpecTelemetry: _log_request called often enough to fill the history
\* What _log_request is called with: a response's status and no error, or
\* status 0 and the exception of a failed attempt.
LoggedCalls == {<<200, NoException>>, <<NoResponse, ClientConnectionError>>}

InitTelemetry ==
    /\ OthersUnused
    /\ HelpersUnused
    /\ started = 0

\* _log_request(method, url, status, duration, error)
LogRequestCall(status, error) ==
    /\ request_count < MaxLogCalls
    /\ error = NoException \/ error_count < MaxLoggedErrors
    /\ SetTelemetry(LogRequest(Telemetry, status, error))
    /\ UNCHANGED <<now, fnVars, dlVars, gmVars, pc, wake, rlVars, cbVars, caVars,
                   rqVars, result, grants, cbHist, started, max_retries,
                   circuit_breaker, session, session_id, connector, attempt,
                   last_exception, sleeps, outcome, closes, issued_on>>

NextTelemetry == \E c \in LoggedCalls : LogRequestCall(c[1], c[2])

SpecTelemetry == InitTelemetry /\ [][NextTelemetry]_vars

\* --- SpecBody: one caller's request() calls, answered with every kind of body
Bodies ==
    {JsonBody, NullBody, BadJsonBody, TextBody, EmptyBody, SniffedJsonBody,
     PaddedTextBody, WhiteSpaceBody, DeepJsonBody}

InitBody ==
    /\ NoDeadlines
    /\ \E b \in BOOLEAN : ClientInit(b, 0, ClientCacheTTL)

NextBody ==
    \/ Tick
    \/ TimerFire
    \/ Request(Caller, MaxBodyRequests, {PlainGet, CachedGet})
    \/ BreakerAdmit(Caller)
    \/ ExecBegin(Caller)
    \/ LimiterEnter(Caller)
    \/ LimiterWake(Caller)
    \/ \E o \in Outcomes, b \in Bodies : TransportDone(Caller, o, b)

SpecBody == InitBody /\ [][NextBody]_vars

\* --- SpecDeadline: concurrent request() calls whose callers have deadlines
\* Each task makes its calls under one deadline, as in
\* "async with asyncio.timeout_at(d): await client.request(...)".
Deadlines == {NoDeadline} \cup (Epoch + 1)..(Epoch + MaxDeadline)

InitDeadline ==
    /\ deadline \in [Tasks -> Deadlines]
    /\ cancelled = [t \in Tasks |-> FALSE]
    /\ \E b \in BOOLEAN, r \in 0..MaxClientRetries :
        ClientInit(b, r, ClientCacheTTL)

\* A task calls request() before its deadline.
DeadlineRequest(t) ==
    /\ deadline[t] = NoDeadline \/ now < deadline[t]
    /\ Request(t, MaxDeadlineRequests, {PlainGet})

NextDeadline ==
    \/ Tick
    \/ TimerFire
    \/ \E t \in Tasks : DeadlineRequest(t)
    \/ \E t \in Tasks : BreakerAdmit(t)
    \/ \E t \in Tasks : ExecBegin(t)
    \/ \E t \in Tasks : LimiterEnter(t)
    \/ \E t \in Tasks : LimiterWake(t)
    \/ \E t \in Tasks, o \in Outcomes : TransportDone(t, o, JsonBody)
    \/ \E t \in Tasks : BackoffWake(t)
    \/ \E t \in Tasks : Cancel(t)

SpecDeadline == InitDeadline /\ [][NextDeadline]_vars

\* --- SpecMulti: one caller's request() calls, then get_multiple(endpoints)
\* self.get(endpoint): request("GET", endpoint) with use_cache=True.
Get(e) ==
    [method |-> "GET", url |-> e, params |-> <<>>, use_cache |-> TRUE,
     cache_ttl |-> NoTTL]

\* fetch_one: "except Exception as e" catches whatever get() raises but a
\* cancellation.
FetchCatchesHttpErrors(e) ==
    e.type \in {"ClientResponseError", "ClientConnectionError"}
FetchCatches(e) == e.type # "CancelledError"

\* {"error": str(e)}
ErrorEntry(e) == [kind |-> "error", body |-> e.type]

\* The lists of endpoints explored: one fetch_one coroutine per task.
EndpointLists == UNION {[1..n -> {"u1", "u2"}] : n \in 0..NumTasks}
Fetchers == 1..Len(gm_endpoints)

\* fetch_one number t has not begun.
NotBegun(t) == pc[t] = "idle" /\ result[t] = NoResult

\* get_multiple(endpoints), up to "await asyncio.gather(*tasks)".
GetMultipleCall(es) ==
    /\ gm_pc = "idle"
    /\ \A t \in Tasks : pc[t] = "idle"
    /\ gm_pc' = "gather"
    /\ gm_endpoints' = es
    /\ result' = [t \in Tasks |-> NoResult]
    /\ UNCHANGED <<now, fnVars, dlVars, gm_results, pc, wake, rlVars, cbVars,
                   clVars, caVars, rqVars, grants, cbHist, started>>

\* The event loop starts the coroutines gather() was given, in their order:
\* fetch_one number t calls get(endpoints[t]).
FetchBegin(t) ==
    /\ gm_pc = "gather"
    /\ t \in Fetchers
    /\ NotBegun(t)
    /\ \A u \in Fetchers : u < t => ~NotBegun(u)
    /\ Request(t, started + 1, {Get(gm_endpoints[t])})

\* What fetch_one number t returns: (endpoint, response) or
\* (endpoint, {"error": str(e)}).
Fetched(t) ==
    IF result[t].kind = "returned" THEN response[t]
    ELSE ErrorEntry(result[t].exc)

\* dict(results): of several results for one endpoint the last one stays.
LastFetcherOf(e) ==
    CHOOSE t \in Fetchers :
        /\ gm_endpoints[t] = e
        /\ \A u \in Fetchers : gm_endpoints[u] = e => u <= t

\* Every fetch_one has ended: gather() returns their results, or raises what
\* the first of them raised, and get_multiple returns dict(results).
GetMultipleReturn ==
    /\ gm_pc = "gather"
    /\ \A t \in Fetchers : pc[t] = "idle" /\ result[t] # NoResult
    /\ gm_pc' = "done"
    /\ LET escaped == {t \in Fetchers : /\ result[t].kind = "raised"
                                        /\ ~FetchCatches(result[t].exc)}
       IN gm_results' =
            IF escaped # {}
            THEN [kind |-> "raised", value |-> <<>>,
                  exc |-> result[CHOOSE t \in escaped :
                                    \A u \in escaped : t <= u].exc]
            ELSE [kind |-> "returned",
                  value |-> [e \in {gm_endpoints[t] : t \in Fetchers} |->
                                Fetched(LastFetcherOf(e))],
                  exc |-> NoException]
    /\ UNCHANGED <<now, fnVars, dlVars, gm_endpoints, pc, wake, rlVars, cbVars,
                   clVars, caVars, rqVars, result, grants, cbHist, started>>

\* The transport outcomes explored under SpecMulti.
MultiOutcomes == {200, 500}

InitMulti ==
    /\ NoDeadlines
    /\ \E b \in BOOLEAN : ClientInit(b, 0, ClientCacheTTL)

\* request() calls of the caller before it calls get_multiple.
EarlierRequest ==
    /\ gm_pc = "idle"
    /\ Request(Caller, MaxMultiRequests, {PlainGet})

NextMulti ==
    \/ Tick
    \/ TimerFire
    \/ EarlierRequest
    \/ \E es \in EndpointLists : GetMultipleCall(es)
    \/ \E t \in Tasks : FetchBegin(t)
    \/ GetMultipleReturn
    \/ \E t \in Tasks : BreakerAdmit(t)
    \/ \E t \in Tasks : ExecBegin(t)
    \/ \E t \in Tasks : LimiterEnter(t)
    \/ \E t \in Tasks : LimiterWake(t)
    \/ \E t \in Tasks, o \in MultiOutcomes : TransportDone(t, o, JsonBody)

SpecMulti == InitMulti /\ [][NextMulti]_vars

\* --- SpecLive: concurrent request() calls with breaker and limiter enabled,
\* under fair scheduling
\* The transport outcomes explored under SpecLive.
LiveOutcomes == {200, 500}

InitLive ==
    /\ NoDeadlines
    /\ \E r \in 0..MaxClientRetries : ClientInit(TRUE, r, ClientCacheTTL)
    /\ min_interval > 0

\* The transport call of task t ends.
TransportEnds(t) == \E o \in LiveOutcomes : TransportDone(t, o, JsonBody)

NextLive ==
    \/ Tick
    \/ TimerFire
    \/ \E t \in Tasks : Request(t, MaxLiveRequests, {PlainGet})
    \/ \E t \in Tasks : BreakerAdmit(t)
    \/ \E t \in Tasks : ExecBegin(t)
    \/ \E t \in Tasks : LimiterEnter(t)
    \/ \E t \in Tasks : LimiterWake(t)
    \/ \E t \in Tasks : TransportEnds(t)
    \/ \E t \in Tasks : BackoffWake(t)

\* The event loop runs every task that is ready and fires every timer that
\* is due; asyncio.Lock wakes its waiters in the order they came, so a task
\* that waits for a lock which is released again and again gets it; the
\* transport call ends.  No fairness for Request: no caller has to call.
FairScheduling ==
    /\ WF_vars(TimerFire)
    /\ \A t \in Tasks :
        /\ SF_vars(BreakerAdmit(t))
        /\ WF_vars(ExecBegin(t))
        /\ SF_vars(LimiterEnter(t))
        /\ WF_vars(LimiterWake(t))
        /\ WF_vars(TransportEnds(t))
        /\ WF_vars(BackoffWake(t))

SpecLive == InitLive /\ [][NextLive]_vars /\ FairScheduling

\* ---------------- SpecCache: any sequence of AsyncCache operations over time
Urls == {"u1", "u2"}
CacheKeys == {GenerateCacheKey("GET", u, <<>>) : u \in Urls}
CacheValues == {None, JsonLoads("{a}"), RawText("hello")}
TTLs == {NoTTL} \cup 0..MaxTTL

InitCache ==
    /\ NoDeadlines
    /\ now = Epoch
    /\ pc = [t \in Tasks |-> "idle"]
    /\ wake = [t \in Tasks |-> 0]
    /\ RateLimiterInit(Unlimited)
    /\ CircuitBreakerInit(1, 1)
    /\ \E d \in 0..MaxTTL : AsyncCacheInit(d)
    /\ result = [t \in Tasks |-> NoResult]
    /\ grants = <<>>
    /\ successes = 0
    /\ failures = 0
    /\ func_exc = [t \in Tasks |-> NoException]
    /\ retry_in = [t \in Tasks |-> 0]
    /\ started = 0
    /\ HelpersUnused
    /\ ClientUnused

\* One more operation of the cache is explored.
CacheCall ==
    /\ started < MaxCacheOps
    /\ started' = started + 1
    /\ UNCHANGED <<now, fnVars, dlVars, gmVars, pc, wake, rlVars, cbVars, clVars, rqVars, result,
                   grants, cbHist>>

GetCall(k) == CacheCall /\ CacheGet(k)
SetCall(k, v, ttl) == CacheCall /\ CacheSet(k, v, ttl)
ClearCall == CacheCall /\ CacheClear
CleanupExpiredCall == CacheCall /\ CleanupExpired

NextCache ==
    \/ Tick
    \/ \E k \in CacheKeys : GetCall(k)
    \/ \E k \in CacheKeys, v \in CacheValues, ttl \in TTLs : SetCall(k, v, ttl)
    \/ ClearCall
    \/ CleanupExpiredCall

SpecCache == InitCache /\ [][NextCache]_vars

\* ------------------ SpecKey: _generate_cache_key on two calls' arguments
\* The two calls are made by the first two tasks.
ParamNames == {"a", "b", "c"}
ParamValues == {1, 2}
Items == ParamNames \X ParamValues

\* The items() of the dictionaries of at most MaxParams parameters: every
\* insertion order of every choice of distinct names and their values.
ParamSeqs ==
    {p \in UNION {[1..n -> Items] : n \in 0..MaxParams} :
        \A i, j \in 1..Len(p) : p[i][1] = p[j][1] => i = j}

KeyArgs ==
    {[method |-> m, url |-> "u1", params |-> p, use_cache |-> TRUE,
      cache_ttl |-> NoTTL] : m \in {"GET", "get"}, p \in ParamSeqs}

InitKey ==
    /\ NoDeadlines
    /\ now = Epoch
    /\ pc = [t \in Tasks |-> "idle"]
    /\ wake = [t \in Tasks |-> 0]
    /\ RateLimiterInit(Unlimited)
    /\ CircuitBreakerInit(1, 1)
    /\ AsyncCacheInit(DefaultTTL)
    /\ result = [t \in Tasks |-> NoResult]
    /\ grants = <<>>
    /\ successes = 0
    /\ failures = 0
    /\ func_exc = [t \in Tasks |-> NoException]
    /\ retry_in = [t \in Tasks |-> 0]
    /\ started = 0
    /\ HelpersUnused
    /\ max_retries = 0
    /\ circuit_breaker = FALSE
    /\ session = "none"
    /\ session_id = 0
    /\ connector = "open"
    /\ closes = 0
    /\ request_count = 0
    /\ error_count = 0
    /\ last_requests = <<>>
    /\ attempt = [t \in Tasks |-> 0]
    /\ last_exception = [t \in Tasks |-> NoException]
    /\ sleeps = [t \in Tasks |-> <<>>]
    /\ outcome = [t \in Tasks |-> NoOutcome]
    /\ \E a, b \in KeyArgs :
        args = [t \in Tasks |-> IF t = Caller THEN a
                                ELSE IF t = Caller + 1 THEN b ELSE NoArgs]
    /\ req_headers = [t \in Tasks |-> NoHeaders]
    /\ issued_on = [t \in Tasks |-> "none"]
    /\ NoGetMultiple
    /\ cache_key = [t \in Tasks |-> NoKey]
    /\ response = [t \in Tasks |-> None]
    /\ simple_response = [t \in Tasks |-> NoSimpleResponse]

\* Task t computes the cache key of its arguments.
KeyCall(t) ==
    /\ args[t] # NoArgs
    /\ cache_key[t] = NoKey
    /\ cache_key' = [cache_key EXCEPT ![t] =
            GenerateCacheKey(args[t].method, args[t].url, args[t].params)]
    /\ UNCHANGED <<now, fnVars, dlVars, gmVars, pc, wake, rlVars, cbVars, clVars, caVars, args,
                   req_headers, response, simple_response, result, grants, cbHist,
                   started>>

NextKey == \E t \in Tasks : KeyCall(t)

SpecKey == InitKey /\ [][NextKey]_vars

\* ------------ SpecGet: one caller's request() calls, cached and uncached
Methods == {"GET", "get", "POST", "PUT", "DELETE"}

GetArgs ==
    {[method |-> m, url |-> u, params |-> <<>>, use_cache |-> c,
      cache_ttl |-> ttl] :
        m \in Methods, u \in Urls, c \in BOOLEAN, ttl \in {NoTTL, 1}}

GetBodies == {JsonBody, NullBody, BadJsonBody, TextBody, EmptyBody}

InitGet ==
    /\ NoDeadlines
    /\ \E b \in BOOLEAN, d \in 1..MaxTTL : ClientInit(b, 0, d)

NextGet ==
    \/ Tick
    \/ TimerFire
    \/ Request(Caller, MaxGetRequests, GetArgs)
    \/ BreakerAdmit(Caller)
    \/ ExecBegin(Caller)
    \/ LimiterEnter(Caller)
    \/ LimiterWake(Caller)
    \/ \E o \in Outcomes, b \in GetBodies : TransportDone(Caller, o, b)

SpecGet == InitGet /\ [][NextGet]_vars

\* --- SpecClosing: one caller's requests with retries while another task
\* calls close()
\* The task that calls close().
Closer == CHOOSE t \in Tasks : t # Caller

\* The transport outcomes explored under SpecClosing.
ClosingOutcomes == {200, 500, SessionIsClosed}

InitClosing ==
    /\ NoDeadlines
    /\ \E b \in BOOLEAN, r \in 0..MaxClientRetries :
            ClientInit(b, r, ClientCacheTTL)

NextClosing ==
    \/ Tick
    \/ TimerFire
    \/ Request(Caller, MaxClosingCalls, {PlainGet})
    \/ Close(Closer, MaxClosingCalls)
    \/ BreakerAdmit(Caller)
    \/ ExecBegin(Caller)
    \/ LimiterEnter(Caller)
    \/ LimiterWake(Caller)
    \/ \E o \in ClosingOutcomes : TransportDone(Caller, o, JsonBody)
    \/ BackoffWake(Caller)

SpecClosing == InitClosing /\ [][NextClosing]_vars

\* --- SpecShared: two callers' cached GETs on one client, each call with its
\* own Authorization header
\* get(url, headers={"Authorization": v}): use_cache is True by default.
SharedArgs ==
    {[method |-> "GET", url |-> u, params |-> <<>>, use_cache |-> TRUE,
      cache_ttl |-> NoTTL] : u \in Urls}

AuthHeaders == {[n \in {"Authorization"} |-> v] : v \in HeaderValues}

\* The bodies the server answers with: two JSON documents.
SharedBodies == {JsonBody, OtherJsonBody}

InitShared ==
    /\ NoDeadlines
    /\ \E b \in BOOLEAN, d \in 1..MaxTTL : ClientInit(b, 0, d)

NextShared ==
    \/ Tick
    \/ TimerFire
    \/ \E t \in Tasks : RequestOf(t, MaxSharedRequests, SharedArgs, AuthHeaders)
    \/ \E t \in Tasks : BreakerAdmit(t)
    \/ \E t \in Tasks : ExecBegin(t)
    \/ \E t \in Tasks : LimiterEnter(t)
    \/ \E t \in Tasks : LimiterWake(t)
    \/ \E t \in Tasks, b \in SharedBodies : TransportDone(t, 200, b)

SpecShared == InitShared /\ [][NextShared]_vars

\* ================================================================== claims
\* Task t is inside the function wrapped by CircuitBreaker.call.
InWrapped(t) ==
    pc[t] \in {"func", "exec", "acquire", "rl_sleep", "transport", "backoff"}

\* C1: with the rate limiter enabled, any two permits are granted at least
\* min_interval apart under every interleaving of concurrent callers; the
\* i-th and the j-th grant are at least (j - i) * min_interval apart, so k
\* acquires take at least (k - 1) * min_interval.
C1_MinSpacing ==
    min_interval > 0 =>
        \A i, j \in 1..Len(grants) :
            i < j => grants[j] - grants[i] >= (j - i) * min_interval

\* Permits granted at the largest interval while a second caller waits
\* for the lock that a sleeping caller holds.
C1_Witness ==
    /\ min_interval = MaxInterval
    /\ Len(grants) >= 2
    /\ \E t, u \in Tasks :
        /\ pc[t] = "rl_sleep" /\ rl_lock = t
        /\ u # t /\ pc[u] = "acquire"

\* C2: a call that reaches the state check while the breaker is OPEN and
\* less than recovery_timeout has passed since the last failure is rejected
\* with CircuitBreakerOpenError and does not enter the wrapped function.
C2_OpenRejects ==
    [][\A t \in Tasks :
        ( /\ pc[t] = "cb_call" /\ pc'[t] # "cb_call"
          /\ state = "OPEN"
          /\ now - last_failure_time < recovery_timeout )
        => ( /\ result'[t] = Raised(CircuitBreakerOpenError, 0)
             /\ pc'[t] = "idle"
             /\ state' = "OPEN"
             /\ successes' = successes /\ failures' = failures )]_vars

\* Every task has been rejected by the OPEN breaker within the timeout.
C2_Witness ==
    /\ state = "OPEN"
    /\ now - last_failure_time < recovery_timeout
    /\ \A t \in Tasks : result[t] = Raised(CircuitBreakerOpenError, 0)

\* C3: from a fresh breaker whose calls all fail, the state is CLOSED while
\* fewer than failure_threshold failures are recorded, and the step that
\* records failure number failure_threshold moves CLOSED to OPEN and sets
\* last_failure_time to the time of that failure.
C3_OpensAtThreshold ==
    /\ []((successes = 0 /\ failures < failure_threshold)
            => (state = "CLOSED" /\ failure_count = failures))
    /\ [][(successes = 0 /\ failures' = failures + 1
            /\ failures' = failure_threshold)
          => (state = "CLOSED" /\ state' = "OPEN"
              /\ last_failure_time' = now)]_vars

\* The breaker has just opened on failure number failure_threshold.
C3_Witness ==
    /\ failure_threshold = MaxThreshold
    /\ successes = 0
    /\ failures = failure_threshold
    /\ state = "OPEN"
    /\ last_failure_time = now

\* C4: a call that reaches the state check while OPEN with recovery_timeout
\* elapsed makes the state HALF_OPEN and enters the wrapped function; a probe
\* that returns makes the state CLOSED with failure_count 0; a probe that
\* raises makes the state OPEN, adds one to failure_count and sets
\* last_failure_time to the time of the probe's failure.
C4_HalfOpenProbe ==
    [][/\ \A t \in Tasks :
            ( /\ pc[t] = "cb_call" /\ pc'[t] # "cb_call"
              /\ state = "OPEN"
              /\ now - last_failure_time >= recovery_timeout )
            => (state' = "HALF_OPEN" /\ InWrapped(t)')
       /\ (state = "HALF_OPEN" /\ successes' = successes + 1)
            => (state' = "CLOSED" /\ failure_count' = 0)
       /\ (state = "HALF_OPEN" /\ failures' = failures + 1)
            => ( /\ state' = "OPEN"
                 /\ failure_count' = failure_count + 1
                 /\ last_failure_time' = now )]_vars

\* A probe failed, a later probe succeeded: the breaker is CLOSED again.
C4_Witness ==
    /\ failures > failure_threshold
    /\ successes = 1
    /\ state = "CLOSED"
    /\ failure_count = 0

\* C5: while the state is HALF_OPEN exactly one task is inside the wrapped
\* function, under every interleaving of concurrent callers.
C5_SingleProbe ==
    state = "HALF_OPEN" => Cardinality({t \in Tasks : InWrapped(t)}) = 1

\* The probe is running and a second caller is waiting at call().
C5_Witness ==
    /\ state = "HALF_OPEN"
    /\ \E t, u \in Tasks : InWrapped(t) /\ u # t /\ pc[u] = "cb_call"

\* C6: the breaker lock is released while the wrapped request runs: no task
\* holds the breaker lock while its transport call is in flight (so that the
\* transport calls of concurrent requests can overlap).
C6_BreakerLockFreeDuringTransport ==
    \A t \in Tasks : pc[t] = "transport" => cb_lock # t

\* C7: no request holds two of the component locks at the same time.  (The
\* cache lock is taken and released inside one uninterrupted segment, before
\* the breaker is called or after it returned.)
C7_OneLockAtATime ==
    \A t \in Tasks : ~(cb_lock = t /\ rl_lock = t)

\* C8: once an attempt of a request has ended with a status in 400..499 the
\* request is over: the client error of that attempt has been raised to the
\* caller, no backoff sleep follows it and no further attempt is made; when
\* it was the first attempt, exactly one attempt was made.
C8_ClientErrorNotRetried ==
    \A t \in Tasks :
        outcome[t] \in 400..499 =>
            /\ pc[t] = "idle"
            /\ result[t] = Raised(ClientResponseError(outcome[t]), attempt[t] + 1)
            /\ Len(sleeps[t]) = attempt[t]
            /\ (attempt[t] = 0 => result[t].attempt = 1 /\ sleeps[t] = <<>>)

\* A client with retries configured got a 4xx on the first attempt and raised.
C8_Witness ==
    /\ max_retries = MaxRetries
    /\ outcome[Caller] \in 400..499
    /\ result[Caller].kind = "raised"
    /\ result[Caller].attempt = 1

\* The delay the backoff schedule names for attempt index i: 1, 2, 4, 8, 16
\* and then 30 seconds.
ExpectedBackoff(i) == IF i >= 5 THEN 30 ELSE 2 ^ i

\* C9: a request whose attempts all failed with a status >= 500 or with no
\* response made exactly max_retries + 1 attempts and slept
\* ExpectedBackoff(i) after failed attempt i for i = 0 .. max_retries - 1,
\* with no sleep after the final attempt; every sleep made so far follows
\* the schedule.
C9_RetriesExhausted ==
    \A t \in Tasks :
        /\ \A i \in 1..Len(sleeps[t]) : sleeps[t][i] = ExpectedBackoff(i - 1)
        /\ ( /\ pc[t] = "idle"
             /\ result[t].kind = "raised"
             /\ (outcome[t] = NoResponse \/ outcome[t] >= 500) )
           => ( /\ result[t].attempt = max_retries + 1
                /\ Len(sleeps[t]) = max_retries )

\* All attempts of a request with the most retries failed with 500; the last
\* backoff was the capped one.
C9_Witness ==
    /\ max_retries = MaxRetries
    /\ pc[Caller] = "idle"
    /\ result[Caller].kind = "raised"
    /\ outcome[Caller] = 500
    /\ Len(sleeps[Caller]) = MaxRetries
    /\ sleeps[Caller][Len(sleeps[Caller])] = 30

\* C10: once an attempt of a request has ended with a success status, the
\* request has returned the response of that attempt, without an error and
\* without a further attempt or sleep, after one backoff sleep for each of
\* the failed attempts before it.
C10_SuccessReturnsAttempt ==
    \A t \in Tasks :
        (outcome[t] # NoOutcome /\ outcome[t] # NoResponse /\ outcome[t] < 400)
        => ( /\ pc[t] = "idle"
             /\ result[t] = Returned(attempt[t] + 1)
             /\ attempt[t] <= max_retries
             /\ Len(sleeps[t]) = attempt[t] )

\* The last permitted attempt succeeded after retryable failures.
C10_Witness ==
    /\ max_retries >= 2
    /\ attempt[Caller] = max_retries
    /\ outcome[Caller] = 200
    /\ result[Caller].kind = "returned"
    /\ last_exception[Caller] # NoException

\* C11: one request() call adds exactly 1 to request_count however many
\* attempts it takes, and appends one record per attempt to last_requests:
\* when the first request of a client is over, request_count is 1 and
\* last_requests holds as many records as attempts were made (a GET that
\* fails twice with 500 and then succeeds: 1 and 3).
C11_OneCountPerRequest ==
    (started = 1 /\ pc[Caller] = "idle" /\ result[Caller] # NoResult)
    => ( /\ request_count = 1
         /\ Len(last_requests) = result[Caller].attempt )

\* C12: the end of a transport attempt appends exactly one record to
\* last_requests, and its status is the HTTP status of the response when one
\* was received (4xx and 5xx included) and 0 only when none was.
C12_OneRecordPerAttempt ==
    [][\A t \in Tasks :
        (pc[t] = "transport" /\ pc'[t] # "transport")
        => ( /\ Len(last_requests') = Len(last_requests) + 1
             /\ last_requests'[Len(last_requests')].status = outcome'[t] )]_vars

\* C13: a get(k) that follows set(k, v, ttl) made at time t with an explicit
\* ttl, with no later set of k and no clear, returns v when it runs before
\* t + ttl and returns None and leaves no entry for k when it runs at or
\* after t + ttl.
C13_GetWithinTTL ==
    [][\A k \in DOMAIN last_set :
        ( /\ cache_op'.n = cache_op.n + 1
          /\ cache_op'.op = "get" /\ cache_op'.key = k
          /\ last_set[k].ttl # NoTTL )
        => IF now < last_set[k].time + last_set[k].ttl
           THEN cache_op'.value = last_set[k].value
           ELSE cache_op'.value = None /\ k \notin DOMAIN cache']_vars

\* Two parameter lists hold the same (name, value) pairs.
SameItems(p, q) == {p[i] : i \in 1..Len(p)} = {q[i] : i \in 1..Len(q)}

\* C14: two calls with the same method and URL whose query parameters are
\* the same pairs in any two orders compute identical cache keys.
C14_KeyOrderIndependent ==
    \A t, u \in Tasks :
        ( /\ cache_key[t] # NoKey /\ cache_key[u] # NoKey
          /\ args[t].method = args[u].method
          /\ args[t].url = args[u].url
          /\ SameItems(args[t].params, args[u].params) )
        => cache_key[t] = cache_key[u]

\* Keys were computed for the most parameters, given in two different orders.
C14_Witness ==
    \E t, u \in Tasks :
        /\ cache_key[t] # NoKey /\ cache_key[u] # NoKey
        /\ args[t].method = args[u].method
        /\ Len(args[t].params) = MaxParams
        /\ args[t].params # args[u].params
        /\ SameItems(args[t].params, args[u].params)
        /\ cache_key[t] = cache_key[u]

\* The call of task t is a GET (in either case) that asks for the cache.
CacheEligible(a) == a.method \in {"GET", "get"} /\ a.use_cache

\* C15: every step that looks a key up in the cache or changes its contents
\* is a step of a call whose method is GET and that passed use_cache = True
\* (so a POST, PUT or DELETE call, even with use_cache = True, does neither),
\* and an entry is written only in the step in which the call returns a
\* response (a GET that ends in an error writes none).
C15_CacheOnlyForGet ==
    [][/\ (cache_op'.n # cache_op.n \/ cache' # cache)
            => CacheEligible(args'[Caller])
       /\ (cache_op'.n # cache_op.n /\ cache_op'.op = "set")
            => ( /\ result[Caller].kind = "none"
                 /\ result'[Caller].kind = "returned" )]_vars

\* A POST with use_cache = True returned a response for a URL whose GET is
\* cached; the latest cache operation is still the set made by that GET, the
\* second operation on the cache.
C15_Witness ==
    /\ args[Caller].method = "POST" /\ args[Caller].use_cache
    /\ result[Caller].kind = "returned"
    /\ GenerateCacheKey("GET", args[Caller].url, <<>>) \in DOMAIN cache
    /\ cache_op.op = "set" /\ cache_op.n = 2

\* C16: a cache-eligible GET called while its key has an unexpired entry is
\* over in the step of the call: it returns the entry's value without
\* entering the breaker, the rate limiter or the transport, and the request
\* counters, the request history, the breaker and the limiter are unchanged.
C16_HitReturnsImmediately ==
    [][\A k \in DOMAIN cache :
        ( /\ started' = started + 1
          /\ CacheEligible(args'[Caller])
          /\ k = GenerateCacheKey(args'[Caller].method, args'[Caller].url,
                                  args'[Caller].params)
          /\ now < cache[k].expiry )
        => ( /\ pc'[Caller] = "idle"
             /\ result'[Caller] = Returned(0)
             /\ response'[Caller] = cache[k].value
             /\ UNCHANGED <<request_count, error_count, last_requests,
                            cbVars, rlVars>> )]_vars

\* C17: the step in which a cache-eligible GET returns the response of a
\* transport attempt with a non-empty body, parsed or raw, leaves the
\* returned value in the cache under the call's key, unexpired.
C17_SuccessfulGetIsCached ==
    [][( /\ pc[Caller] = "transport"
         /\ result'[Caller].kind = "returned"
         /\ CacheEligible(args[Caller])
         /\ response'[Caller] # None )
       => LET k == GenerateCacheKey(args[Caller].method, args[Caller].url,
                                   args[Caller].params)
          IN /\ k \in DOMAIN cache'
             /\ cache'[k].value = response'[Caller]
             /\ now < cache'[k].expiry]_vars

\* C18: the step in which the function wrapped by CircuitBreaker.call raises
\* records the failure and ends the call by raising that same exception: the
\* call does not return and raises no other exception in its place.
C18_SameErrorReraised ==
    [][\A t \in Tasks :
        (pc[t] = "func" /\ pc'[t] # "func" /\ failures' = failures + 1)
        => ( /\ pc'[t] = "idle"
             /\ failure_count' = failure_count + 1
             /\ last_failure_time' = now
             /\ result'[t].kind = "raised"
             /\ result'[t].exc = func_exc'[t] )]_vars

\* Two calls ended with the different exceptions their functions raised.
C18_Witness ==
    \E t, u \in Tasks :
        /\ result[t] = Raised(FuncError, 1) /\ func_exc[t] = FuncError
        /\ result[u] = Raised(OtherFuncError, 1)
        /\ func_exc[u] = OtherFuncError

C20_SuccessResetsCount ==
    [][successes' = successes + 1 => failure_count' = 0]_vars

\* C21: a call rejected because the breaker is OPEN goes straight back to its
\* caller with CircuitBreakerOpenError: the rejecting step makes no
\* rate-limiter acquire and no transport attempt, starts no backoff sleep,
\* announces the remaining wait recovery_timeout - (now - last_failure_time),
\* which is positive, and leaves state, failure_count, last_failure_time and
\* the count of recorded failures as they were.
C21_RejectionIsNotAFailure ==
    [][\A t \in Tasks :
        (pc[t] = "cb_call" /\ pc'[t] = "idle") =>
            /\ state = "OPEN"
            /\ result'[t] = Raised(CircuitBreakerOpenError, 0)
            /\ retry_in'[t] = recovery_timeout - (now - last_failure_time)
            /\ retry_in'[t] > 0
            /\ attempt'[t] = 0
            /\ outcome'[t] = NoOutcome
            /\ sleeps'[t] = <<>>
            /\ UNCHANGED <<now, fnVars, dlVars, gmVars, wake, rlVars, state, failure_count,
                           last_failure_time, failures, successes, session,
                           request_count, error_count, last_requests>>]_vars

\* A request of a client with retries and a rate limit was rejected by the
\* breaker that five failed requests had opened.
C21_Witness ==
    /\ pc[Caller] = "idle"
    /\ result[Caller] = Raised(CircuitBreakerOpenError, 0)
    /\ state = "OPEN"
    /\ failure_count = DefaultFailureThreshold
    /\ max_retries > 0
    /\ min_interval > 0
    /\ 0 < retry_in[Caller]

\* C22: when all max_retries + 1 attempts of a request failed, the exception
\* raised to the caller is the one the final attempt raised.
C22_LastErrorRaised ==
    \A t \in Tasks :
        (pc[t] = "idle" /\ result[t].kind = "raised"
                        /\ result[t].attempt = max_retries + 1) =>
            result[t].exc = ExceptionOf(outcome[t])

\* The first request of a client with at least two retries used up its
\* attempts: an earlier attempt was answered with status 500, the final one
\* got no response, and the connection error was raised.
C22_Witness ==
    /\ started = 1
    /\ pc[Caller] = "idle"
    /\ max_retries >= 2
    /\ result[Caller] = Raised(ClientConnectionError, max_retries + 1)
    /\ outcome[Caller] = NoResponse
    /\ \E i \in 1..Len(last_requests) : last_requests[i].status = 500

\* C23: every close() call, whatever the session state it finds (never
\* created, open, already closed), returns and leaves the client without an
\* open session: an open session is closed, anything else is left alone, and
\* no session is created.
C23_CloseIdempotent ==
    [][closes' = closes + 1 =>
            /\ session' # "open"
            /\ session' = (IF session = "open" THEN "closed" ELSE session)
            /\ session_id' = session_id
            /\ UNCHANGED <<pc, result>>]_vars

\* close() was called before any request, after a request, and once more on
\* the session it had already closed.
C23_Witness ==
    /\ closes = 3
    /\ session_id = 1
    /\ session = "closed"
    /\ request_count = 1

\* C24: no session exists after construction; the first request that reaches
\* the retry executor creates one, which is open; a later request that
\* reaches it keeps the session it finds open and creates a new one when it
\* finds the session closed; nothing else creates a session.
C24_SessionLifecycle ==
    /\ (session = "none" /\ session_id = 0)
    /\ [][/\ ((\E t \in Tasks : pc[t] = "exec" /\ pc'[t] # "exec") =>
                /\ (session = "none" => session' = "open")
                /\ (session = "open" => session' = "open")
                /\ session_id' = (IF session = "open" THEN session_id
                                                     ELSE session_id + 1))
           /\ (session_id' # session_id =>
                (\E t \in Tasks : pc[t] = "exec" /\ pc'[t] # "exec"))]_vars

\* Three requests reached the retry executor and close() was called once
\* between them: one session served two requests and the request after the
\* close created the second session.
C24_Witness ==
    /\ session_id = 2
    /\ closes = 1
    /\ request_count >= 3
    /\ pc[Caller] = "idle"

\* The string s without its trailing slashes, and without its leading ones.
WithoutTrailingSlashes(s) ==
    LET k == CHOOSE i \in 0..Len(s) :
                /\ (i = 0 \/ s[i] # "/")
                /\ \A j \in (i + 1)..Len(s) : s[j] = "/"
    IN SubSeq(s, 1, k)
WithoutLeadingSlashes(s) ==
    LET k == CHOOSE i \in 1..(Len(s) + 1) :
                /\ (i = Len(s) + 1 \/ s[i] # "/")
                /\ \A j \in 1..(i - 1) : s[j] = "/"
    IN SubSeq(s, k, Len(s))
\* The endpoint starts with http:// or https://.
IsAbsolute(e) ==
    /\ Len(e) >= 3
    /\ SubSeq(e, 1, 3) \in {<<"http:", "/", "/">>, <<"https:", "/", "/">>}

\* C25: an endpoint that starts with http:// or https:// is returned
\* unchanged; for any other endpoint and a non-empty base_url the built URL is
\* the base_url without its trailing slashes, one "/", and the endpoint
\* without its leading slashes.
C25_UrlJoined ==
    started = 1 =>
        IF IsAbsolute(endpoint)
        THEN full_url = endpoint
        ELSE base_url_arg # <<>> =>
                full_url = WithoutTrailingSlashes(base_url_arg) \o <<"/">>
                                \o WithoutLeadingSlashes(endpoint)

\* base_url "https://a/" and endpoint "/a" gave "https://a/a".
C25_Witness ==
    /\ started = 1
    /\ base_url_arg = <<"https:", "/", "/", "a", "/">>
    /\ endpoint = <<"/", "a">>
    /\ full_url = <<"https:", "/", "/", "a", "/", "a">>

\* C26: with an empty base_url, _build_url returns an endpoint that does not
\* start with http:// or https:// unchanged.
C26_EmptyBaseKeepsEndpoint ==
    (started = 1 /\ base_url_arg = <<>> /\ ~IsAbsolute(endpoint)) =>
        full_url = endpoint

\* C27: the merged headers hold exactly the default and the per-call names;
\* a default name not given per call keeps its default value, and every name
\* given per call has the per-call value.
C27_HeadersOverlaid ==
    started = 1 =>
        /\ DOMAIN merged_headers = DOMAIN default_headers \cup DOMAIN headers
        /\ \A k \in DOMAIN default_headers \ DOMAIN headers :
                merged_headers[k] = default_headers[k]
        /\ \A k \in DOMAIN headers : merged_headers[k] = headers[k]

\* A call gave its own Authorization and a custom header; the client's
\* User-Agent was kept and its Authorization replaced.
C27_Witness ==
    /\ started = 1
    /\ DOMAIN default_headers = {"Authorization", "User-Agent"}
    /\ DOMAIN headers = {"Authorization", "X-Custom-Header"}
    /\ default_headers["Authorization"] # headers["Authorization"]
    /\ merged_headers["Authorization"] = headers["Authorization"]
    /\ merged_headers["User-Agent"] = default_headers["User-Agent"]

\* C28: when a request got a successful response whose body does not parse as
\* JSON, or whose content type does not announce JSON, request() returns the
\* text of the body as it is; after a successful response request() returns,
\* it does not raise.
C28_RawTextFallback ==
    [][\A t \in Tasks :
        (pc[t] = "transport" /\ pc'[t] = "idle"
                             /\ ~RaisesForStatus(outcome'[t])
                             /\ outcome'[t] \in Statuses) =>
            /\ result'[t].kind = "returned"
            /\ (\/ ~ValidJson(simple_response'[t].text)
                \/ simple_response'[t].content_type
                        \notin {"application/json", "application/javascript"})
               => response'[t] = [kind |-> "text",
                                  body |-> simple_response'[t].text]]_vars

\* C29: a caller with a deadline is never blocked past it.  When the deadline
\* comes while the request waits in RateLimiter.acquire(), in a backoff sleep
\* or in the transport call, the wait ends there and then: the request raises
\* the cancellation error to its caller and does not go on to another attempt
\* or another sleep, so after its deadline the caller is never inside
\* request().
C29_DeadlineEndsWait ==
    /\ [](\A t \in Tasks :
            (deadline[t] # NoDeadline /\ now > deadline[t]) => pc[t] = "idle")
    /\ [][\A t \in Tasks :
            (cancelled'[t] /\ ~cancelled[t]) =>
                /\ Suspended(t)
                /\ now' = deadline[t]
                /\ pc'[t] = "idle"
                /\ result'[t].kind = "raised"
                /\ result'[t].exc.type = "CancelledError"
                /\ wake'[t] = wake[t]
                /\ sleeps'[t] = sleeps[t]]_vars

\* The caller's deadline came after a first attempt had failed and a backoff
\* sleep had begun; the call ended with the cancellation error at the deadline,
\* and time has passed since.
C29_Witness ==
    /\ cancelled[Caller]
    /\ max_retries > 0
    /\ sleeps[Caller] # <<>>
    /\ pc[Caller] = "idle"
    /\ result[Caller].exc.type = "CancelledError"
    /\ now > deadline[Caller]

\* C30: the telemetry buffer never holds more than its capacity of 100
\* records.  A record logged into a buffer with room is added at the end; a
\* record logged into a full buffer takes the place of the oldest one: every
\* other record moves one place towards the front, so the records stay in the
\* order they were logged in.
C30_BoundedOldestEvicted ==
    /\ [](Len(last_requests) <= 100)
    /\ [][request_count' # request_count =>
            LET n == Len(last_requests) IN
            IF n < 100
            THEN /\ Len(last_requests') = n + 1
                 /\ \A i \in 1..n : last_requests'[i] = last_requests[i]
            ELSE /\ Len(last_requests') = 100
                 /\ \A i \in 1..99 : last_requests'[i] = last_requests[i + 1]
                 /\ (last_requests'[100].status = 0) <=>
                        (error_count' # error_count)]_vars

\* More than 100 records were logged, two of them failures; the older failure
\* has left the buffer, the younger one is still in it.
C30_Witness ==
    /\ request_count > 100
    /\ error_count = 2
    /\ Len(last_requests) = 100
    /\ Cardinality({i \in 1..100 : last_requests[i].status = 0}) = 1

\* C31: get_multiple(endpoints) never raises because a fetch failed.  Once
\* every fetch has ended it returns a dictionary with exactly one entry for
\* each distinct endpoint: the response of the fetch of that endpoint if it
\* succeeded, and {"error": message} if it failed, a fetch the open breaker
\* rejected included (of several fetches of one endpoint, the last listed).
C31_PartialResults ==
    gm_pc = "done" =>
        /\ gm_results.kind = "returned"
        /\ DOMAIN gm_results.value =
                {gm_endpoints[t] : t \in 1..Len(gm_endpoints)}
        /\ \A t \in 1..Len(gm_endpoints) :
            (\A u \in 1..Len(gm_endpoints) :
                gm_endpoints[u] = gm_endpoints[t] => u <= t) =>
            /\ result[t].kind \in {"returned", "raised"}
            /\ result[t].kind = "returned" =>
                    gm_results.value[gm_endpoints[t]] = response[t]
            /\ result[t].kind = "raised" =>
                    gm_results.value[gm_endpoints[t]] =
                        [kind |-> "error", body |-> result[t].exc.type]

\* get_multiple(["u1", "u2"]) on a client whose breaker five failed requests
\* had opened: it returned, with the breaker's rejection as the entry of "u1".
C31_Witness ==
    /\ gm_pc = "done"
    /\ gm_endpoints = <<"u1", "u2">>
    /\ state = "OPEN"
    /\ gm_results.kind = "returned"
    /\ gm_results.value["u1"] =
            [kind |-> "error", body |-> "CircuitBreakerOpenError"]

\* C32: every transport attempt, a retry as much as a first attempt, comes
\* straight out of its own rate_limiter.acquire(); with a rate above zero the
\* limiter's last_request_time is the start of the latest transport call of
\* the client, and a transport call of any request starts at least
\* min_interval after the one before it.
C32_AttemptsSpaced ==
    [][/\ \A t \in Tasks :
            (pc'[t] = "transport" /\ pc[t] # "transport") =>
                /\ pc[t] \in {"acquire", "rl_sleep"}
                /\ min_interval > 0 =>
                    /\ last_request_time' = now'
                    /\ now' - last_request_time >= min_interval
       /\ last_request_time' # last_request_time =>
            \E t \in Tasks : pc'[t] = "transport" /\ pc[t] # "transport"]_vars

\* Two requests are in their transport calls at once, one of them in a retry,
\* on a client whose limiter spaces requests two ticks apart.
C32_Witness ==
    /\ min_interval = 2
    /\ \E t, u \in Tasks :
        /\ t # u
        /\ pc[t] = "transport"
        /\ pc[u] = "transport"
        /\ attempt[t] = 1
        /\ sleeps[t] # <<>>

\* C33: with requests_per_second <= 0 the rate limiter is disabled.  acquire()
\* returns in the step it is called in: no time passes, the lock is neither
\* taken nor waited for, last_request_time keeps its value, and the call
\* returns rather than raises; so the lock stays free, nobody sleeps in the
\* limiter and last_request_time stays what __init__ made it.
C33_DisabledLimiter ==
    /\ [](requests_per_second.num <= 0 =>
            /\ min_interval = 0
            /\ rl_lock = NoTask
            /\ last_request_time = 0
            /\ \A t \in Tasks : pc[t] # "rl_sleep")
    /\ [][\A t \in Tasks :
            (requests_per_second.num <= 0 /\ pc[t] = "acquire"
                                          /\ pc'[t] # "acquire") =>
                /\ pc'[t] = "idle"
                /\ now' = now
                /\ rl_lock' = rl_lock
                /\ last_request_time' = last_request_time
                /\ wake' = wake
                /\ result' = result
                /\ grants' = Append(grants, now)]_vars

\* A limiter built with a negative rate let four acquire() calls return, all
\* at one moment.
C33_Witness ==
    /\ requests_per_second.num < 0
    /\ Len(grants) = 4
    /\ grants[1] = grants[4]
    /\ last_request_time = 0

\* C34: set(key, value, ttl) called at time t with a ttl >= 0 given leaves
\* for the key exactly the entry (value, t + ttl), in place of any entry the
\* key had, and leaves the entries of all other keys as they were.
C34_SetStoresGivenTTL ==
    [][(cache_op'.n # cache_op.n /\ cache_op'.op = "set"
            /\ last_set'[cache_op'.key].ttl >= 0) =>
        LET key == cache_op'.key IN
        /\ DOMAIN cache' = DOMAIN cache \cup {key}
        /\ cache'[key] = [value |-> cache_op'.value,
                          expiry |-> now + last_set'[key].ttl]
        /\ \A k \in DOMAIN cache \ {key} : cache'[k] = cache[k]]_vars

\* C35: cleanup_expired() run at time t removes every entry whose expiry is
\* at or before t and leaves every entry whose expiry is after t as it was;
\* every key that remains is one a get() at time t returns as a hit.
C35_CleanupRemovesExpired ==
    [][(cache_op'.n # cache_op.n /\ cache_op'.op = "cleanup_expired") =>
        /\ DOMAIN cache' = {k \in DOMAIN cache : cache[k].expiry > now}
        /\ \A k \in DOMAIN cache' :
            /\ cache'[k] = cache[k]
            /\ now' < cache'[k].expiry]_vars

\* Two keys were set, then cleanup_expired() ran at the very moment the entry
\* of one of them expired: that entry is gone, the other one is kept.
C35_Witness ==
    /\ cache_op.op = "cleanup_expired"
    /\ cache_op.n = 3
    /\ Cardinality(DOMAIN cache) = 1
    /\ \E k \in DOMAIN last_set \ DOMAIN cache :
        /\ last_set[k].ttl > 0
        /\ last_set[k].time + last_set[k].ttl = now

\* C36: in every state of a breaker with failure_threshold >= 1, an OPEN or
\* HALF_OPEN breaker has counted at least failure_threshold failures and a
\* CLOSED one fewer than failure_threshold; so the failure of the HALF_OPEN
\* probe, which adds one to the count, always puts the breaker back to OPEN.
C36_StateMatchesCount ==
    /\ [](failure_threshold >= 1 =>
            /\ state \in {"OPEN", "HALF_OPEN"} =>
                    failure_count >= failure_threshold
            /\ state = "CLOSED" => failure_count < failure_threshold)
    /\ [][(failure_threshold >= 1 /\ state = "HALF_OPEN"
                                  /\ failures' = failures + 1) =>
            /\ state' = "OPEN"
            /\ failure_count' = failure_count + 1
            /\ last_failure_time' = now]_vars

\* The probe of a HALF_OPEN breaker failed: the breaker is OPEN again, with
\* one failure more than its threshold.
C36_Witness ==
    /\ state = "OPEN"
    /\ failure_count = failure_threshold + 1
    /\ successes = 0
    /\ \E t \in Tasks : pc[t] = "idle" /\ result[t].kind = "raised"
                                       /\ result[t].exc \in FuncErrors

\* C37: with the breaker and the rate limiter both enabled, concurrent
\* request() calls never deadlock.  The limiter's lock is only taken, or
\* waited for, by the task that holds the breaker's lock, and no task waits
\* for the breaker's lock while it holds the limiter's; under fair scheduling,
\* with transport calls and sleeps that end, every request() that was called
\* eventually returns or raises.
C37_NoDeadlock ==
    /\ [](\A t \in Tasks :
            /\ pc[t] \in {"acquire", "rl_sleep"} => cb_lock = t
            /\ rl_lock = t => cb_lock = t
            /\ pc[t] = "cb_call" => rl_lock # t)
    /\ \A t \in Tasks : (pc[t] # "idle") ~> (pc[t] = "idle")

\* One request sleeps in the limiter, holding both locks, while the other
\* waits for the breaker's lock.
C37_Witness ==
    \E t, u \in Tasks :
        /\ pc[t] = "rl_sleep"
        /\ rl_lock = t
        /\ cb_lock = t
        /\ pc[u] = "cb_call"

\* C38: the breaker counts one failure for each request whose attempts ended
\* in an error, however many attempts were made: the step that raises the
\* error to the caller adds exactly one to failure_count, a failed attempt
\* that goes on to a backoff sleep adds nothing, and a backoff wake-up adds
\* nothing.  An attempt answered with a 4xx status ends its request at once
\* and is counted like any other failure; the failure that brings the count
\* to failure_threshold opens the circuit.
C38_OneFailurePerRequest ==
    [][\A t \in Tasks :
        /\ (pc[t] = "transport" /\ pc'[t] = "idle"
                /\ result'[t].kind = "raised") =>
            /\ failure_count' = failure_count + 1
            /\ failures' = failures + 1
            /\ result'[t].exc = ExceptionOf(outcome'[t])
            /\ (failure_count' >= failure_threshold => state' = "OPEN")
        /\ (pc[t] \in {"transport", "backoff"} /\ pc'[t] # "idle") =>
            UNCHANGED <<failure_count, failures, state>>
        /\ (pc[t] = "transport" /\ outcome'[t] \in 400..499) =>
            /\ pc'[t] = "idle"
            /\ result'[t] = Raised(ClientResponseError(outcome'[t]),
                                   attempt[t] + 1)
            /\ failure_count' = failure_count + 1]_vars

\* Five requests of a client with retries were each answered with status 400
\* on their only attempt, and the circuit is open.
C38_Witness ==
    /\ started = DefaultFailureThreshold
    /\ pc[Caller] = "idle"
    /\ max_retries > 0
    /\ result[Caller] = Raised(ClientResponseError(400), 1)
    /\ request_count = 2 * DefaultFailureThreshold
    /\ \A i \in 1..Len(last_requests) : last_requests[i].status \in {400, 0}
    /\ failure_count = failure_threshold
    /\ state = "OPEN"

\* C39: what a cache-eligible GET returns on a cache hit depends only on its
\* method, URL and query parameters.  The key of the call is the key of these
\* three, whatever headers the calling task gave, and when the cache holds an
\* unexpired value other than None under that key the call returns that value
\* at once, without an attempt: a GET that differs from an earlier one only
\* in its Authorization header is served the response stored for the earlier
\* one.
C39_HitIgnoresHeaders ==
    [][started' = started + 1 =>
        \E t \in Tasks :
            LET a == args'[t]
                key == GenerateCacheKey(a.method, a.url, a.params)
            IN /\ pc[t] = "idle"
               /\ \A u \in Tasks \ {t} :
                    UNCHANGED <<pc[u], args[u], req_headers[u], cache_key[u],
                                result[u], response[u]>>
               /\ UsesCache(a)
               /\ req_headers'[t] \in AuthHeaders
               /\ cache_key'[t] = key
               /\ (/\ key \in DOMAIN cache
                   /\ now < cache[key].expiry
                   /\ cache[key].value # None) =>
                      /\ pc'[t] = "idle"
                      /\ result'[t] = Returned(0)
                      /\ response'[t] = cache[key].value
                      /\ UNCHANGED <<request_count, grants>>]_vars

\* One caller's GET with Authorization v1 was answered by the server and
\* stored; the other caller's GET of the same URL with Authorization v2 was
\* then served that response from the cache.
C39_Witness ==
    \E t, u \in Tasks :
        /\ pc[t] = "idle" /\ pc[u] = "idle"
        /\ args[t] = args[u]
        /\ req_headers[u] = [n \in {"Authorization"} |-> "v1"]
        /\ req_headers[t] = [n \in {"Authorization"} |-> "v2"]
        /\ result[u] = Returned(1)
        /\ result[t] = Returned(0)
        /\ request_count = 1
        /\ response[t] = response[u]
        /\ response[t] # None

\* C40: every transport attempt of a request is issued on a session that is
\* open at that moment, also when close() runs while the request waits in a
\* backoff sleep or in the rate limiter between attempts.
C40_IssuedOnOpenSession ==
    \A t \in Tasks : pc[t] = "transport" => issued_on[t] = "open"

====
